---- MODULE Spec2Model ----
(***************************************************************************)
(* Model of the headless ARN stabilization controller                      *)
(* (src/ARN/arn_controller.py) together with the parts of the gyro decoder *)
(* (src/KVH DSP 3100/dsp3100.py) and of the actuator RS-485 driver         *)
(* (src/GYEMS/gyems_rs485.py) that the controller calls.                   *)
(*                                                                         *)
(* Threads: one caller thread (the GUI / CLI that calls the public API),   *)
(* and the control and status threads that start() spawns.  Every          *)
(* "with self._lock:" block is one step (it holds no blocking call); the   *)
(* actuator I/O lock is held across several steps and is modelled          *)
(* explicitly.  Angles are integers in units of half a degree.             *)
(***************************************************************************)
EXTENDS Integers, FiniteSets, Sequences, TLC

(* ------------------------------ bounds --------------------------------- *)

\* Number of thread slots per kind; a slot is free again once its thread has
\* returned.
MaxTasks == 2

\* ArnParams.status_fail_max_in_row (default 5), kept small here.
status_fail_max_in_row == 2

\* Number of API calls the caller thread makes in one behaviour (calls that
\* return at once without touching anything are not counted).
MaxCalls == 3

\* Number of ticks the control threads and the status threads start in one
\* behaviour (the latter also caps the status counters).
MaxControlTicks == 2
MaxStatusTicks == 2

\* Number of publishes into the snapshot that one behaviour of the
\* field-level model begins.
MaxPublishes == 3

\* Number of set_params calls in one behaviour of the parameter model.
MaxSetParams == 1

\* Longest payload of a frame in the frame model.
MaxPayload == 2

\* Largest retries argument of read_status in the driver model.
MaxRetries == 2

\* Longest free byte stream fed to the gyro decoder.
MaxStream == 7

\* Drift model: clock readings, packets accepted, determine_drift calls.
MaxTime == 3
MaxPackets == 2
MaxWindows == 2

\* Floating-point model: the bits of a significand (53 in the program), the
\* packets of a behaviour, the angle changes a packet may carry (each larger
\* than the spacing of the numbers next to a full turn, as 2 * LSB_TO_DEG is)
\* and the single-turn angles the actuator may report.
Precision == 6
MaxFloatPackets == 4
AngleChanges == { -140, -9, 9, 140 }
SingleTurnAngles == { 0, 84, 712 }

\* Frame-wait model: self.timeout in clock ticks, the payload lengths a
\* header may announce, and the cap of the skipped-byte count.
TimeoutTicks == 2
MaxLength == 2
MaxSkipped == 3

\* Packets the decoder accepts before the tick of the rate model.
MaxRatePackets == 3

(* ----------------------------- constants ------------------------------- *)

\* 360.0 degrees in half-degree units (the modulus of the heading).
FullTurn == 720

\* Angles the gyro decoder may report while its ingestion thread runs
\* (137.5 and 140.0 degrees) and the value of a fresh decoder.
DspAngles == {275, 280}
DspInitialAngle == 0

\* Single-turn angles the actuator may report (42.0 degrees).
GyemsAngles == {84}

\* Values of snapshot.last_error.
ErrNone == ""
ErrTx == "TX-only send failed"
ErrWatchdog == "Status watchdog triggered (too many timeouts in a row)"
ErrStatus == "read_status/angle failed"

Tasks == 1..MaxTasks

VARIABLES
    dsp,                \* self.dsp: "none" | "closed" (ser is None) | "open"
    gy,                 \* self.gy:  "none" | "closed" (ser is None) | "open"
    run_evt,            \* self._run_evt
    io_lock,            \* self._io_lock: Free or its holder
    snap,               \* self._snap
    status_ok,          \* self._status_ok
    status_to,          \* self._status_to
    status_fail_row,    \* self._status_fail_row
    dsp_zero_offset,    \* self._dsp_zero_offset
    gyems_zero_offset,  \* self._gyems_zero_offset
    upc,                \* caller thread: position
    ucall,              \* caller thread: the API call in progress
    uDsp, uGy,          \* zero_orientation's locals dsp_angle, gy_angle
    cpc,                \* control threads: position
    cAngle, cHeading,   \* control threads: locals angle, dsp_heading
    spc,                \* status threads: position
    sAng,               \* status threads: local gy_ang
    cStale,             \* history: the offsets were stored again after the
                        \* thread computed its heading
    snapStale,          \* history: snap.dsp_heading_deg came from such a tick
    stop_tx_count,      \* history: zero-speed frames written by stop() since
                        \* the run flag was last set
    calls,              \* history: API calls made so far
    cticks, sticks      \* history: control and status ticks started so far

links == << dsp, gy >>
counters == << status_ok, status_to, status_fail_row >>
offsets == << dsp_zero_offset, gyems_zero_offset >>
caller == << upc, ucall, uDsp, uGy >>
control == << cpc, cAngle, cHeading, cStale >>
status == << spc, sAng >>
budget == << calls, cticks, sticks >>

arnVars == << links, run_evt, io_lock, snap, counters, offsets, caller,
              control, status, snapStale, stop_tx_count, budget >>

(* The snapshot at field granularity (get_snapshot and its readers). *)
VARIABLES
    snap_lock,          \* self._lock: "free" or the publisher holding it
    widx,               \* position of that publisher in its list of writes
    wstamp,             \* the values that publisher writes (one stamp each)
    nstamp,             \* history: publishes begun so far
    fields,             \* self._snap.__dict__: field name -> value
    objs,               \* GyemsStatus objects by identity: id -> content
    returned            \* snapshots get_snapshot() has handed out (last one)

readerVars == << snap_lock, widx, wstamp, nstamp, fields, objs, returned >>

(* The controller parameters (set_params and the control law). *)
VARIABLES
    params,             \* self.params: kp, deadband_dps, gyro_sign, max_dps
    sp_pc,              \* set_params: the field whose test comes next
    sp_args,            \* set_params: the supplied arguments (field -> value)
    tk_pc,              \* control tick: the read of self.params that is next
    tk,                 \* control tick: the values read so far, and cmd
    committed,          \* history: the parameter records that were in force
                        \* before or after a whole set_params call
    sp_calls            \* history: set_params calls made so far

paramVars == << params, sp_pc, sp_args, tk_pc, tk, committed, sp_calls >>

(* One frame of the actuator protocol, built, carried and parsed. *)
VARIABLES
    fr_in,              \* the arguments: command code, motor id, payload
    fr_wire,            \* the bytes on the line
    fr_pc,              \* "new" | "built" | "read"
    fr_hit,             \* history: index of the payload byte replaced, or 0
    fr_out              \* what _read_frame returned or raised

frameVars == << fr_in, fr_wire, fr_pc, fr_hit, fr_out >>

(* One caller of the actuator driver. *)
VARIABLES
    ser,                \* self.ser: "none" | "open"
    dr_pc,              \* "idle" | "rs_loop" | "txrx" | "rx" | "rs_except"
                        \* | "tx_only" | "done"
    dr_op,              \* the operation called
    dr_r,               \* the retries argument of read_status
    dr_attempt,         \* attempts started by read_status
    dr_last_exc,        \* last_exc: the attempt whose timeout is held, or 0
    dr_result,          \* what the call returned or raised
    dr_was_open,        \* history: the transport was open at the call
    dr_written,         \* history: frames written during the call
    dr_resps,           \* history: the byte streams the line delivered
    dr_flushed          \* history: attempts followed by reset_input_buffer

driverVars == << ser, dr_pc, dr_op, dr_r, dr_attempt, dr_last_exc, dr_result,
                 dr_was_open, dr_written, dr_resps, dr_flushed >>

(* The gyro's read loop. *)
VARIABLES
    ds_input,           \* history: the bytes the line will deliver
    ds_stream,          \* the bytes not yet read
    ds_pc,              \* "read" (line 62) | "frame" (line 68)
    buffer,             \* the local buffer of _read_loop
    skipped,            \* the local skipped of _read_loop
    ds_angle,           \* self.angle, in units of LSB_TO_DEG
    valid_packets,      \* self.valid_packets
    skipped_bytes,      \* self.skipped_bytes
    ds_discarded        \* history: the bytes discarded, in order

decoderVars == << ds_input, ds_stream, ds_pc, buffer, skipped, ds_angle,
                  valid_packets, skipped_bytes, ds_discarded >>

(* The gyro's drift measurement: the accepted branch of the read loop, line
   by line, against a caller of determine_drift. *)
VARIABLES
    clock,              \* time.time()
    drift,              \* self.drift, a fraction of LSB per clock unit
    drift_active,       \* self._drift_active
    drift_sum,          \* self._drift_sum
    drift_count,        \* self._drift_count
    drift_start,        \* self._drift_start
    drift_duration,     \* self._drift_duration
    pk_pc,              \* the read loop's position in the accepted branch
    angle_change,       \* local angle_change
    now,                \* local now
    tmp,                \* the value read by an unlocked read-modify-write
    duration,           \* local duration
    drift_correction,   \* local drift_correction, before the division
    dd_pc,              \* the caller's position in determine_drift
    sekunden,           \* the argument of determine_drift
    df_corr,            \* the drift values subtracted from self.angle so far
    df_prev,            \* history: drift when determine_drift was called
    df_last,            \* history: the drift the last correction used, and
                        \* at that moment: the window flag, a call in
                        \* progress, df_prev
    df_expect,          \* history: deltas of the packets of this window
    df_raced,           \* history: a call overlapped a packet's window code
    df_packets,         \* history: packets accepted
    df_windows          \* history: determine_drift calls

driftVars == << clock, drift, drift_active, drift_sum, drift_count,
                drift_start, drift_duration, pk_pc, angle_change, now, tmp,
                duration, drift_correction, dd_pc, sekunden, df_corr,
                df_prev, df_last, df_expect, df_raced, df_packets,
                df_windows >>

(* One control tick's command, from the values it read to the publish. *)
VARIABLES
    lw_in,              \* the rate and the parameters the tick reads
    lw_pc,              \* "new" | "error" | "cmd" | "sent" | "done"
    lw_error,           \* local error
    lw_cmd,             \* local cmd
    lw_sent,            \* what set_speed_deg_s_tx_only was given, and whether
                        \* it raised
    lw_pub              \* self._snap.cmd_dps

lawVars == << lw_in, lw_pc, lw_error, lw_cmd, lw_sent, lw_pub >>

(* The threads of the controller and the three locks they take. *)
VARIABLES
    holder,             \* lock -> the thread holding it, or NoThread
    prog,               \* thread -> the steps left of what it is executing
    launched            \* the threads that have been started

lockVars == << holder, prog, launched >>

(* One call of GyemsRmdRs485._read_frame and the time it takes. *)
VARIABLES
    sy_pc,              \* "off" | "sync" (138-145) | "fields" (148)
                        \* | "payload" (161) | "frame" | "timeout"
                        \* | "checksum"
    sy_elapsed,         \* time.time() minus the time the current deadline
                        \* was computed, counted up to TimeoutTicks
    sy_last,            \* what the last ser.read gave: "none" | "empty"
                        \* | "marker" | "other" | "bytes"
    sy_buf,             \* len(buf) in _read_exact
    sy_need,            \* n of _read_exact
    sy_skipped          \* history: bytes skipped before the marker (capped)

syncVars == << sy_pc, sy_elapsed, sy_last, sy_buf, sy_need, sy_skipped >>

(* The angles and headings as the floating-point numbers they are. *)
VARIABLES
    fl_angle,           \* DSP3100.angle
    fl_n,               \* history: packets accepted
    fl_offsets,         \* << _dsp_zero_offset, _gyems_zero_offset >>
    fl_headings         \* << snapshot.dsp_heading_deg,
                        \*    snapshot.gyems_heading_deg >>

floatVars == << fl_angle, fl_n, fl_offsets, fl_headings >>

(* The gyro object as the control tick sees it. *)
VARIABLES
    dsp_obj,            \* the attributes of the DSP3100 object: name -> value
    rt_in,              \* the parameters the tick reads
    rt_delta,           \* history: angle_change of the last accepted packet
    rt_pc,              \* "off" | "packets" | "send" | "publish" | "done"
    rt_rate,            \* local rate
    rt_cmd,             \* local cmd
    rt_sent,            \* the command written to the actuator
    rt_snap             \* self._snap: dsp_rate_dps, dsp_angle_deg, cmd_dps

rateVars == << dsp_obj, rt_in, rt_delta, rt_pc, rt_rate, rt_cmd, rt_sent,
               rt_snap >>

components ==
    << readerVars, paramVars, frameVars, driverVars, decoderVars, driftVars,
       lawVars, lockVars,
       rateVars,
       syncVars,
       floatVars >>

vars == << arnVars, components >>

(* ------------------------------ helpers -------------------------------- *)

\* ArnSnapshot(): the dataclass defaults.
ArnSnapshot ==
    [ running |-> FALSE, connected |-> FALSE,
      dsp_rate_dps |-> 0, dsp_angle_deg |-> 0, dsp_heading_deg |-> 0,
      cmd_dps |-> 0,
      gyems_status |-> "None", gyems_angle_deg |-> 0, gyems_heading_deg |-> 0,
      status_ok |-> 0, status_timeouts |-> 0, status_fail_row |-> 0,
      last_error |-> ErrNone ]

\* heading = (angle - offset) % 360.0
Heading(angle, offset) == (angle - offset) % FullTurn

\* DSP3100.get_angle() as the controller sees it: the integrated angle of a
\* decoder whose ingestion thread runs, 0.0 of a decoder that never opened.
DspGetAngle == IF dsp = "open" THEN DspAngles ELSE {DspInitialAngle}

\* "float(self.dsp.get_angle())" inside try/except: 0.0 when self.dsp is None.
ReadDspAngle == IF dsp = "none" THEN {0} ELSE DspGetAngle

\* Holders of self._io_lock.
Free == << "free", 0 >>
User == << "user", 0 >>
StatusThread(t) == << "status", t >>

\* The lowest free slot.
FreeSlot(pc) ==
    CHOOSE t \in Tasks : pc[t] = "off" /\ \A s \in Tasks : pc[s] = "off" => t <= s

(* ------------------- the snapshot, field by field ---------------------- *)

\* The fields of ArnSnapshot that the periodic tasks and zero_orientation
\* write (running, connected and last_error are written one at a time).
FieldNames ==
    { "t_s", "dsp_rate_dps", "dsp_angle_deg", "dsp_heading_deg", "cmd_dps",
      "gyems_status", "gyems_angle_deg", "gyems_heading_deg",
      "status_ok", "status_timeouts", "status_fail_row" }

\* A value is identified by the publish that computed it.
DefaultStamp == << "init", 0 >>
ReaderStamp == << "reader", 0 >>

\* ArnSnapshot(): every field at its default, gyems_status None (object 0).
FreshFields ==
    [f \in FieldNames |-> IF f = "gyems_status" THEN 0 ELSE DefaultStamp]

\* The blocks "with self._lock:" that write several fields, in the order of
\* their assignments.
Publishers == { "control", "status_ok", "status_to", "zero" }

Writes(w) ==
    CASE w = "control" ->
           << "t_s", "dsp_rate_dps", "dsp_angle_deg", "dsp_heading_deg",
              "cmd_dps" >>
      [] w = "status_ok" ->
           << "gyems_status", "gyems_angle_deg", "gyems_heading_deg",
              "status_ok", "status_timeouts", "status_fail_row" >>
      [] w = "status_to" ->
           << "status_ok", "status_timeouts", "status_fail_row" >>
      [] w = "zero" ->
           << "dsp_heading_deg", "gyems_heading_deg", "dsp_angle_deg",
              "gyems_angle_deg" >>

ReaderIdle ==
    /\ snap_lock = "free"
    /\ widx = 0
    /\ wstamp = DefaultStamp
    /\ nstamp = 0
    /\ fields = FreshFields
    /\ objs = [i \in 0..MaxPublishes |-> DefaultStamp]
    /\ returned = << >>

(* --------------------------- the parameters ---------------------------- *)

\* The fields set_params can replace, in the order of its tests.
ParamNames == << "kp", "deadband_dps", "gyro_sign", "max_dps" >>

\* ArnParams defaults; rates in units of 0.05 deg/s.
ArnParams ==
    [ kp |-> 1, deadband_dps |-> 1, gyro_sign |-> -1, max_dps |-> 3600 ]

\* The value a set_params call supplies for a field, when it supplies one.
NewValue ==
    [ kp |-> 2, deadband_dps |-> 2, gyro_sign |-> 1, max_dps |-> 1800 ]

\* The locals of a control tick before it has read anything.
NoReads ==
    [ gyro_sign |-> 0, deadband_dps |-> 0, kp |-> 0, lo |-> 0, hi |-> 0,
      error |-> 0, cmd |-> 0 ]

\* getattr(self.dsp, "rate_dps", 0.0): DSP3100 has no such attribute.
DspRate == 0

Abs(x) == IF x < 0 THEN -x ELSE x

Min2(a, b) == IF a < b THEN a ELSE b

Max2(a, b) == IF a > b THEN a ELSE b

\* A clamp without the upper limit.
ClampNoUpper(x, lo, hi) == Max2(lo, x)

\* _clamp(x, lo, hi)
Clamp(x, lo, hi) == Max2(lo, Min2(hi, x))

ParamsIdle ==
    /\ params = ArnParams
    /\ sp_pc = 0
    /\ sp_args = << >>
    /\ tk_pc = "idle"
    /\ tk = NoReads
    /\ committed = { ArnParams }
    /\ sp_calls = 0

(* ----------------------- the actuator's frames ------------------------- *)

Byte == 0..255

HEADER_BYTE == 62

\* Command codes, motor ids and payload bytes tried (0x3E is the header
\* byte, 0x9C the status command).
CmdSamples == { 0, 62, 156, 255 }
IdSamples == { 1, 62, 255 }
ByteSamples == { 0, 1, 62, 255 }

RECURSIVE SumBytes(_)
SumBytes(data) ==
    IF data = << >> THEN 0 ELSE Head(data) + SumBytes(Tail(data))

\* A checksum that drops the top bit.
ChkSevenBits(data) == SumBytes(data) % 128

\* _chk: sum(data) & 0xFF
Chk(data) == SumBytes(data) % 256

\* A frame builder that appends the payload checksum to every frame.
BuildFrameAlwaysChk(cmd, mid, data) ==
    LET header == << HEADER_BYTE, cmd % 256, mid, Len(data) >>
    IN  header \o << Chk(header) >> \o data \o << Chk(data) >>

\* _build_frame, with self.motor_id as mid.
BuildFrame(cmd, mid, data) ==
    LET header == << HEADER_BYTE, cmd % 256, mid, Len(data) >>
        frame == header \o << Chk(header) >>
    IN  IF Len(data) # 0 THEN frame \o data \o << Chk(data) >> ELSE frame

\* What _read_frame returns or raises.
Outcome(kind, cmd, mid, data) ==
    [ kind |-> kind, cmd |-> cmd, mid |-> mid, data |-> data ]

NoOutcome == Outcome("none", 0, 0, << >>)

\* The index of the first header byte in the stream, 0 when there is none.
SyncPos(s) ==
    IF \E i \in 1..Len(s) : s[i] = HEADER_BYTE
    THEN CHOOSE i \in 1..Len(s) :
           s[i] = HEADER_BYTE /\ \A j \in 1..(i - 1) : s[j] # HEADER_BYTE
    ELSE 0

\* _read_frame on a line that delivers the bytes of s and then nothing:
\* sync to the header byte, four header fields, header checksum, payload
\* and payload checksum.
ReadFrame(s) ==
    LET i == SyncPos(s) IN
    IF i = 0 THEN Outcome("timeout", 0, 0, << >>)
    ELSE IF Len(s) < i + 4 THEN Outcome("timeout", 0, 0, << >>)
    ELSE
      LET cmd == s[i + 1]
          mid == s[i + 2]
          length == s[i + 3]
          chk_head == s[i + 4]
      IN
      IF Chk(<< HEADER_BYTE, cmd, mid, length >>) # chk_head
      THEN Outcome("header_checksum", 0, 0, << >>)
      ELSE IF length = 0 THEN Outcome("frame", cmd, mid, << >>)
      ELSE IF Len(s) < i + 4 + length + 1
      THEN Outcome("timeout", 0, 0, << >>)
      ELSE
        LET data == SubSeq(s, i + 5, i + 4 + length)
            chk_data == s[i + 5 + length]
        IN  IF Chk(data) # chk_data
            THEN Outcome("data_checksum", 0, 0, << >>)
            ELSE Outcome("frame", cmd, mid, data)

Payloads ==
    UNION { [1..n -> ByteSamples] : n \in 0..MaxPayload }

FrameIdle ==
    /\ fr_in = [cmd |-> 0, mid |-> 1, data |-> << >>]
    /\ fr_wire = << >>
    /\ fr_pc = "new"
    /\ fr_hit = 0
    /\ fr_out = NoOutcome

(* --------------------- the actuator driver's calls -------------------- *)

\* The operations that go through _txrx, with their command codes.
TxRxOps ==
    { "read_model_info", "read_status", "read_error_flags",
      "clear_error_flags", "shutdown", "read_singleturn_angle_deg",
      "set_speed_deg_s", "move_to_abs_angle_deg" }

DriverOps == TxRxOps \cup { "set_speed_deg_s_tx_only" }

\* The command codes of the two reads of the status tick (lines 207, 254).
CommandCode(op) ==
    IF op = "read_status" THEN 156
    ELSE IF op = "read_singleturn_angle_deg" THEN 148
    ELSE 0

\* The shortest payload an operation accepts (lines 208 and 255).
MinLen(op) ==
    IF op = "read_status" THEN 7
    ELSE IF op = "read_singleturn_angle_deg" THEN 2
    ELSE 0

\* struct.unpack("b"), ("<h") and ("<H").
Int8(b) == IF b >= 128 THEN b - 256 ELSE b
Int16LE(lo, hi) ==
    LET u == lo + 256 * hi IN IF u >= 32768 THEN u - 65536 ELSE u
UInt16LE(lo, hi) == lo + 256 * hi

GyemsStatus(t, iq, spd, enc) ==
    [ temperature_C |-> t, torque_current |-> iq, speed_raw |-> spd,
      encoder_pos |-> enc ]

NoStatus == GyemsStatus(0, 0, 0, 0)

\* read_status, lines 210-214.
DecodeStatus(data) ==
    GyemsStatus(Int8(data[1]), Int16LE(data[2], data[3]),
                Int16LE(data[4], data[5]), UInt16LE(data[6], data[7]))

\* What a driver call returned or raised; attempt is the attempt that raised
\* a propagated timeout.
Result(kind, attempt, value) ==
    [ kind |-> kind, attempt |-> attempt, value |-> value ]

NoResult == Result("none", 0, NoStatus)

\* Status payloads the motor answers with: 25 C, 1, -1, 10000 and
\* -56 C, -32768, 0, 0.
StatusA == << 25, 1, 0, 255, 255, 16, 39 >>
StatusB == << 200, 0, 128, 0, 0, 0, 0 >>

\* What the line delivers after a request: two good answers, silence, an
\* answer cut off in its payload, an answer with a wrong payload checksum,
\* an answer with a wrong header checksum, a good frame whose payload is
\* too short for a status, noise before a good answer, and the reply to an
\* earlier TX-only speed command (0xA2), which nobody has read.
Responses ==
    { BuildFrame(156, 1, StatusA),
      BuildFrame(156, 1, StatusB),
      << >>,
      SubSeq(BuildFrame(156, 1, StatusA), 1, 8),
      BuildFrame(156, 1, << 25, 1, 0, 255, 255, 16 >>) \o << 39 >>,
      << 62, 156, 1, 7, 0 >>,
      BuildFrame(156, 1, << 25, 1 >>),
      << 0, 255 >> \o BuildFrame(156, 1, StatusB),
      BuildFrame(162, 1, StatusA) }

DriverIdle ==
    /\ ser = "none"
    /\ dr_pc = "idle"
    /\ dr_op = "none"
    /\ dr_r = 0
    /\ dr_attempt = 0
    /\ dr_last_exc = 0
    /\ dr_result = NoResult
    /\ dr_was_open = FALSE
    /\ dr_written = 0
    /\ dr_resps = << >>
    /\ dr_flushed = { }

(* ------------------------- the gyro's packets -------------------------- *)

\* Bytes of the free streams, and data and status bytes of the packets that
\* follow an inserted byte.
StreamSamples == { 0, 1, 255 }
DataSamples == { 0, 1, 255 }
StatusSamples == { 0, 2 }

\* Line 70: (~sum(block[0:4])) & 0xFF
Checksum(block) == 255 - (SumBytes(SubSeq(block, 1, 4)) % 256)

\* A validity test that ignores the status bit.
ChecksumOnly(block) == block[5] = Checksum(block)

\* Lines 71-73: byte 4 is the checksum and bit 0 of byte 3 is clear.
PacketValid(block) ==
    /\ block[5] = Checksum(block)
    /\ block[4] % 2 = 0

\* _decode_angle in units of LSB_TO_DEG: bytes 0..2 as a big-endian signed
\* 24-bit number, times -2.
DecodeAngle(packet) ==
    LET u == packet[1] * 65536 + packet[2] * 256 + packet[3]
        raw == IF u >= 8388608 THEN u - 16777216 ELSE u
    IN  raw * (-2)

\* The packet the gyro sends for three data bytes and a status byte.
Packet(a, b, c, st) ==
    << a, b, c, st, Checksum(<< a, b, c, st >>) >>

\* Any stream of sample bytes.
FreeStreams == [1..MaxStream -> StreamSamples]

\* One byte of any value followed by a valid packet.
InsertedStreams ==
    { << x >> \o Packet(a, b, c, st) :
        x \in Byte, a \in DataSamples, b \in DataSamples,
        c \in DataSamples, st \in StatusSamples }

\* DSP3100.__init__ and the locals of _read_loop, nothing on the line.
DecoderIdle ==
    /\ ds_input = << >>
    /\ ds_stream = << >>
    /\ ds_pc = "read"
    /\ buffer = << >>
    /\ skipped = 0
    /\ ds_angle = 0
    /\ valid_packets = 0
    /\ skipped_bytes = 0
    /\ ds_discarded = << >>

(* ------------------------- the gyro's drift ---------------------------- *)

RECURSIVE GCD(_, _)
GCD(a, b) == IF b = 0 THEN a ELSE GCD(b, a % b)

\* The quotient n / d (d > 0) in lowest terms.
Rat(n, d) ==
    IF n = 0 THEN [num |-> 0, den |-> 1]
    ELSE LET g == GCD(IF n < 0 THEN -n ELSE n, d)
         IN  [num |-> n \div g, den |-> d \div g]

\* self.drift = 0.0
NoDrift == Rat(0, 1)

\* Requested window lengths, in clock units.
Durations == { 0, 1, 2 }

\* The packets the gyro sends in the drift model: raw 1 and raw -1.
DriftPackets == { Packet(0, 0, 1, 0), Packet(255, 255, 255, 0) }

\* The lines of the accepted branch where the window's fields are used.
WindowCode ==
    { "l78", "l79r", "l79w", "l80r", "l80w", "l82", "l82b", "l83", "l84",
      "l85", "l90" }

\* DSP3100.__init__ and a read loop between two packets.
DriftIdle ==
    /\ clock = 0
    /\ drift = NoDrift
    /\ drift_active = FALSE
    /\ drift_sum = 0 /\ drift_count = 0
    /\ drift_start = 0 /\ drift_duration = 0
    /\ pk_pc = "idle"
    /\ angle_change = 0 /\ now = 0 /\ tmp = 0 /\ duration = 0
    /\ drift_correction = NoDrift
    /\ dd_pc = "idle"
    /\ sekunden = 0
    /\ df_corr = << >>
    /\ df_prev = NoDrift
    /\ df_last = [active |-> FALSE, calling |-> FALSE,
                  used |-> NoDrift, prev |-> NoDrift]
    /\ df_expect = 0
    /\ df_raced = FALSE
    /\ df_packets = 0
    /\ df_windows = 0

(* ------------------------- the control law ----------------------------- *)

\* Rates, deadbands and limits of the control-law model are in units of
\* 0.001 deg/s: 49, 50 and 51 around the default deadband 0.05, 50000 for 50
\* deg/s, 180000 for the default limit 180.
RateSamples == { 0, 49, 50, 51, -51, 50000 }
KpSamples == { 0, 1, 10, -1 }
DeadbandSamples == { 0, 50 }
SignSamples == { -1, 1 }
MaxDpsSamples == { 0, 180000, -180000 }

LawInputs ==
    [ rate : RateSamples, kp : KpSamples, deadband_dps : DeadbandSamples,
      gyro_sign : SignSamples, max_dps : MaxDpsSamples ]

\* A deadband that also swallows an error equal to it.
DeadbandInclusive(error, deadband_dps) ==
    IF Abs(error) <= deadband_dps THEN 0 ELSE error

\* Lines 256-257.
Deadband(error, deadband_dps) ==
    IF Abs(error) < deadband_dps THEN 0 ELSE error

NotSent == [ raised |-> FALSE, cmd |-> 0, written |-> FALSE ]

LawIdle ==
    /\ lw_in = [ rate |-> 0, kp |-> 1, deadband_dps |-> 50, gyro_sign |-> -1,
                 max_dps |-> 180000 ]
    /\ lw_pc = "new"
    /\ lw_error = 0
    /\ lw_cmd = 0
    /\ lw_sent = NotSent
    /\ lw_pub = 0

(* The three locks: ArnController._lock (snapshot, offsets, error),
   ArnController._io_lock (acknowledged actuator I/O) and DSP3100.lock. *)
Locks == { "_lock", "_io_lock", "lock" }

\* The GUI caller, the control thread, the status thread and the read loop
\* of the gyro.
Threads == { "user", "control", "status", "reader" }

NoThread == "none"

\* One step of a thread; starts names the threads the step launches.
Step(op, arg, starts) == [ op |-> op, arg |-> arg, starts |-> starts ]

Acquire(l) == Step("acquire", l, {})

Release(l) == Step("release", l, {})

\* A blocking call on a serial link (or a join).
Io(d) == Step("io", d, {})

\* Work on local values or on the fields the held lock protects.
Local == Step("local", "none", {})

\* 'with l:' around body; the lock is released on return and on exception.
With(l, body) == << Acquire(l) >> \o body \o << Release(l) >>

\* DSP3100.get_angle.
GetAngleSteps == With("lock", << Local >>)

\* ArnController._set_error.
SetErrorSteps == With("_lock", << Local >>)

\* The same steps with the two reads nested in the block of lines 210-219.
ZeroOrientationNestedSteps ==
    With("_lock", GetAngleSteps \o With("_io_lock", << Io("gyems") >>)
                  \o << Local >>)

\* ArnController.zero_orientation: gyro angle, actuator angle under the I/O
\* lock, then offsets and snapshot under the snapshot lock.
ZeroOrientationSteps ==
    GetAngleSteps \o With("_io_lock", << Io("gyems") >>)
    \o With("_lock", << Local >>)

\* ArnController.connect; DSP3100.connect starts the read loop. With
\* completes FALSE, GyemsRmdRs485.connect raises.
ConnectSteps(completes) ==
    With("_lock", << Local >>)
    \o << Step("io", "dsp", { "reader" }), Io("gyems") >>
    \o (IF completes THEN ZeroOrientationSteps \o With("_lock", << Local >>)
                      ELSE << >>)

\* ArnController.stop: clear the event, zero-speed frame, running = False.
StopSteps == << Local, Io("gyems") >> \o With("_lock", << Local >>)

\* ArnController.disconnect: stop, zero-speed frame, close, DSP3100.disconnect
\* (join and close), connected = False.
DisconnectSteps ==
    StopSteps \o << Io("gyems"), Io("gyems"), Io("dsp") >>
    \o With("_lock", << Local >>)

\* ArnController.start: lines 141-152 start both threads, then running = True.
StartSteps ==
    << Step("local", "none", { "control", "status" }) >>
    \o With("_lock", << Local >>)

\* ArnController.get_snapshot.
GetSnapshotSteps == With("_lock", << Local >>)

\* One pass of _control_loop (lines 244-271); with raises, the send fails
\* and _set_error runs in the handler.
ControlTickSteps(raises) ==
    GetAngleSteps \o With("_lock", << Local >>) \o << Local, Io("gyems") >>
    \o (IF raises THEN SetErrorSteps ELSE << >>)
    \o With("_lock", << Local >>)

StatusOutcomes == { "ok", "timeout", "watchdog", "error" }

\* One pass of _status_loop (lines 286-318) by the way it ends: published,
\* timed out, timed out with the watchdog stopping the controller, or failed
\* with another exception in the angle read.
StatusTickSteps(outcome) ==
    CASE outcome = "ok" ->
           With("_io_lock", << Io("gyems"), Io("gyems"), Io("gyems") >>)
           \o << Local >> \o With("_lock", << Local >>)
      [] outcome = "timeout" ->
           With("_io_lock", << Io("gyems"), Io("gyems") >>)
           \o << Local >> \o With("_lock", << Local >>)
      [] outcome = "watchdog" ->
           With("_io_lock", << Io("gyems"), Io("gyems") >>)
           \o << Local >> \o With("_lock", << Local >>)
           \o SetErrorSteps \o StopSteps
      [] OTHER ->
           With("_io_lock", << Io("gyems"), Io("gyems"), Io("gyems") >>)
           \o SetErrorSteps

\* One valid packet in DSP3100._read_loop: the read, the drift block's locked
\* assignment when a window completes, the locked update of the angle.
ReadLoopPacket(completes) ==
    << Io("dsp") >>
    \o (IF completes THEN With("lock", << Local >>) ELSE << >>)
    \o With("lock", << Local >>)

\* What each thread can begin.
ProgramsOf(t) ==
    CASE t = "user" ->
           { ConnectSteps(TRUE), ConnectSteps(FALSE), ZeroOrientationSteps,
             StopSteps, DisconnectSteps, StartSteps, GetSnapshotSteps }
      [] t = "control" -> { ControlTickSteps(FALSE), ControlTickSteps(TRUE) }
      [] t = "status" -> { StatusTickSteps(o) : o \in StatusOutcomes }
      [] OTHER -> { ReadLoopPacket(FALSE), ReadLoopPacket(TRUE) }

LocksIdle ==
    /\ holder = [ l \in Locks |-> NoThread ]
    /\ prog = [ t \in Threads |-> << >> ]
    /\ launched = {}

(* ------------------------ waiting for a frame -------------------------- *)

SyncDone == { "frame", "timeout", "checksum" }

SyncIdle ==
    /\ sy_pc = "off"
    /\ sy_elapsed = 0
    /\ sy_last = "none"
    /\ sy_buf = 0
    /\ sy_need = 0
    /\ sy_skipped = 0

(* ------------------------- headings as floats -------------------------- *)

FloatIdle ==
    /\ fl_angle = 0
    /\ fl_n = 0
    /\ fl_offsets = << 0, 0 >>
    /\ fl_headings = << 0, 0 >>

(* ------------------- the rate the control tick reads ------------------- *)

\* Angle changes of one packet, in units of LSB_TO_DEG (after the factor -2
\* of _decode_angle); rates of the rate model are in LSB_TO_DEG per sample
\* period, so that a packet's angle change is the rate it shows.
DeltaSamples == { -4, 0, 2, 4 }

RateInputs ==
    [ kp : { 1, -1, 10 }, deadband_dps : { 0, 2 }, gyro_sign : { -1, 1 },
      max_dps : { 100 } ]

\* DSP3100.__init__: the attributes a DSP3100 object has. The read loop
\* assigns angle, valid_packets, skipped_bytes, drift and _drift_*; no method
\* adds an attribute.
NewDsp3100 ==
    [ a \in { "ser", "thread", "running", "angle", "valid_packets",
              "skipped_bytes", "lock", "drift", "sampling_rate",
              "_drift_active", "_drift_sum", "_drift_count", "_drift_start",
              "_drift_duration" } |->
        IF a = "sampling_rate" THEN 1024 ELSE 0 ]

\* getattr(obj, name, default)
GetAttr(obj, name, default) ==
    IF name \in DOMAIN obj THEN obj[name] ELSE default

\* ArnController.__init__: self.dsp = None, no tick has run.
RateIdle ==
    /\ dsp_obj = "None"
    /\ rt_in = "None"
    /\ rt_delta = 0
    /\ rt_pc = "off"
    /\ rt_rate = 0
    /\ rt_cmd = 0
    /\ rt_sent = 0
    /\ rt_snap = "None"

ComponentsIdle ==
    /\ ReaderIdle /\ ParamsIdle /\ FrameIdle /\ DriverIdle /\ DecoderIdle
    /\ DriftIdle /\ LawIdle /\ LocksIdle
    /\ RateIdle
    /\ SyncIdle
    /\ FloatIdle

(* ------------------------------- Init ---------------------------------- *)

\* ArnController.__init__: no links, run flag clear, a default snapshot, no
\* thread.
ArnIdle ==
    /\ dsp = "none" /\ gy = "none"
    /\ run_evt = FALSE
    /\ io_lock = Free
    /\ snap = ArnSnapshot
    /\ status_ok = 0 /\ status_to = 0 /\ status_fail_row = 0
    /\ dsp_zero_offset = 0 /\ gyems_zero_offset = 0
    /\ upc = "idle" /\ ucall = "idle"
    /\ uDsp = 0 /\ uGy = 0
    /\ cpc = [t \in Tasks |-> "off"]
    /\ cAngle = [t \in Tasks |-> 0]
    /\ cHeading = [t \in Tasks |-> 0]
    /\ spc = [t \in Tasks |-> "off"]
    /\ sAng = [t \in Tasks |-> 0]
    /\ cStale = [t \in Tasks |-> FALSE]
    /\ snapStale = FALSE
    /\ stop_tx_count = 0
    /\ calls = 0 /\ cticks = 0 /\ sticks = 0

Init == ComponentsIdle /\ ArnIdle

(* ------------------- caller thread: connect / zero --------------------- *)

\* connect(), lines 91-94: the snapshot is replaced by a fresh one.
ConnectReset ==
    /\ upc = "idle"
    /\ calls < MaxCalls
    /\ calls' = calls + 1
    /\ snap' = ArnSnapshot
    /\ snapStale' = FALSE
    /\ ucall' = "connect"
    /\ upc' = "con_dsp"
    /\ UNCHANGED << links, run_evt, io_lock, counters, offsets, uDsp, uGy,
                    control, status, stop_tx_count, cticks, sticks >>
    /\ UNCHANGED components

\* connect(), lines 97-98, with DSP3100.connect: a port that fails to open is
\* caught inside DSP3100.connect (ser = None, no thread), nothing is raised.
ConnectDsp ==
    /\ upc = "con_dsp"
    /\ \E opened \in BOOLEAN : dsp' = IF opened THEN "open" ELSE "closed"
    /\ upc' = "con_gy"
    /\ UNCHANGED << gy, run_evt, io_lock, snap, counters, offsets, ucall,
                    uDsp, uGy, control, status, snapStale, stop_tx_count,
                    budget >>
    /\ UNCHANGED components

\* connect(), lines 101-102, with GyemsRmdRs485.connect: serial.Serial raises
\* when the port cannot be opened, and connect() ends there.
ConnectGyems ==
    /\ upc = "con_gy"
    /\ \/ /\ gy' = "open"
          /\ upc' = "z_dsp"
          /\ UNCHANGED ucall
       \/ /\ gy' = "closed"
          /\ upc' = "idle"
          /\ ucall' = "idle"
    /\ UNCHANGED << dsp, run_evt, io_lock, snap, counters, offsets, uDsp, uGy,
                    control, status, snapStale, stop_tx_count, budget >>
    /\ UNCHANGED components

\* zero_orientation(), lines 195-203: called by the caller thread directly or
\* from connect() (line 105).
ZeroReadDsp ==
    /\ \/ /\ upc = "idle"
          /\ calls < MaxCalls
          /\ calls' = calls + 1
          /\ ucall' = "zero"
       \/ /\ upc = "z_dsp"
          /\ UNCHANGED << ucall, calls >>
    /\ uDsp' \in ReadDspAngle
    /\ uGy' = 0
    /\ upc' = IF gy = "none" THEN "z_commit" ELSE "z_acq"
    /\ UNCHANGED << links, run_evt, io_lock, snap, counters, offsets, control,
                    status, snapStale, stop_tx_count, cticks, sticks >>
    /\ UNCHANGED components

\* A zero_orientation() that reads the actuator angle without the I/O lock.
ZeroAcquireNoLock ==
    /\ upc = "z_acq"
    /\ upc' = "z_gy"
    /\ UNCHANGED << links, run_evt, io_lock, snap, counters, offsets, ucall,
                    uDsp, uGy, control, status, snapStale, stop_tx_count,
                    budget >>
    /\ UNCHANGED components

\* zero_orientation(), line 205: with self._io_lock.
ZeroAcquire ==
    /\ upc = "z_acq"
    /\ io_lock = Free
    /\ io_lock' = User
    /\ upc' = "z_gy"
    /\ UNCHANGED << links, run_evt, snap, counters, offsets, ucall, uDsp, uGy,
                    control, status, snapStale, stop_tx_count, budget >>
    /\ UNCHANGED components

\* zero_orientation(), lines 206-208: the angle read; any exception (timeout,
\* checksum, not connected) leaves gy_angle = 0.0.
ZeroReadGyems ==
    /\ upc = "z_gy"
    /\ \/ gy = "open" /\ uGy' \in GyemsAngles
       \/ uGy' = 0
    /\ io_lock' = Free
    /\ upc' = "z_commit"
    /\ UNCHANGED << links, run_evt, snap, counters, offsets, ucall, uDsp,
                    control, status, snapStale, stop_tx_count, budget >>
    /\ UNCHANGED components

\* zero_orientation(), lines 210-219.
ZeroCommit ==
    /\ upc = "z_commit"
    /\ dsp_zero_offset' = uDsp
    /\ gyems_zero_offset' = uGy
    /\ snap' = [snap EXCEPT !.dsp_heading_deg = 0, !.gyems_heading_deg = 0,
                            !.dsp_angle_deg = uDsp, !.gyems_angle_deg = uGy]
    /\ cStale' = [t \in Tasks |-> cStale[t] \/ cpc[t] \in {"c_send", "c_pub"}]
    /\ snapStale' = FALSE
    /\ uDsp' = 0 /\ uGy' = 0
    /\ upc' = IF ucall = "connect" THEN "con_fin" ELSE "idle"
    /\ ucall' = IF ucall = "connect" THEN "connect" ELSE "idle"
    /\ UNCHANGED << links, run_evt, io_lock, counters, cpc, cAngle, cHeading,
                    status, stop_tx_count, budget >>
    /\ UNCHANGED components

\* connect(), lines 107-108.
ConnectFinish ==
    /\ upc = "con_fin"
    /\ snap' = [snap EXCEPT !.connected = TRUE]
    /\ upc' = "idle"
    /\ ucall' = "idle"
    /\ UNCHANGED << links, run_evt, io_lock, counters, offsets, uDsp, uGy,
                    control, status, snapStale, stop_tx_count, budget >>
    /\ UNCHANGED components

(* ---------------- caller thread: stop / disconnect / start ------------- *)

\* stop(), lines 158-159, called directly or from disconnect() (line 111).
StopCheck ==
    /\ upc = "idle"
    /\ \E call \in {"stop", "disconnect"} :
         IF run_evt \/ call = "disconnect"
         THEN /\ calls < MaxCalls
              /\ calls' = calls + 1
              /\ ucall' = call
              /\ upc' = IF run_evt THEN "stop_clr" ELSE "dis_gy"
         ELSE UNCHANGED << ucall, upc, calls >>
    /\ UNCHANGED << links, run_evt, io_lock, snap, counters, offsets, uDsp,
                    uGy, control, status, snapStale, stop_tx_count, cticks,
                    sticks >>
    /\ UNCHANGED components

\* stop(), line 161.
StopClear ==
    /\ upc = "stop_clr"
    /\ run_evt' = FALSE
    /\ upc' = "stop_tx"
    /\ UNCHANGED << links, io_lock, snap, counters, offsets, ucall, uDsp, uGy,
                    control, status, snapStale, stop_tx_count, budget >>
    /\ UNCHANGED components

\* The zero-speed frame of stop(), lines 163-167: written when the link is
\* open and the write succeeds; every exception is swallowed.
StopWrite(count) ==
    IF gy = "open" THEN {count, count + 1} ELSE {count}

\* stop(), lines 163-167.
StopTx ==
    /\ upc = "stop_tx"
    /\ stop_tx_count' \in StopWrite(stop_tx_count)
    /\ upc' = "stop_snap"
    /\ UNCHANGED << links, run_evt, io_lock, snap, counters, offsets, ucall,
                    uDsp, uGy, control, status, snapStale, budget >>
    /\ UNCHANGED components

\* stop(), lines 169-170.
StopSnap ==
    /\ upc = "stop_snap"
    /\ snap' = [snap EXCEPT !.running = FALSE]
    /\ upc' = IF ucall = "disconnect" THEN "dis_gy" ELSE "idle"
    /\ ucall' = IF ucall = "disconnect" THEN "disconnect" ELSE "idle"
    /\ UNCHANGED << links, run_evt, io_lock, counters, offsets, uDsp, uGy,
                    control, status, snapStale, stop_tx_count, budget >>
    /\ UNCHANGED components

\* disconnect(), lines 113-122: zero speed (best effort), close, drop.
DisconnectGyems ==
    /\ upc = "dis_gy"
    /\ gy' = "none"
    /\ upc' = "dis_dsp"
    /\ UNCHANGED << dsp, run_evt, io_lock, snap, counters, offsets, ucall,
                    uDsp, uGy, control, status, snapStale, stop_tx_count,
                    budget >>
    /\ UNCHANGED components

\* disconnect(), lines 124-129, with DSP3100.disconnect (joins the thread).
DisconnectDsp ==
    /\ upc = "dis_dsp"
    /\ dsp' = "none"
    /\ upc' = "dis_fin"
    /\ UNCHANGED << gy, run_evt, io_lock, snap, counters, offsets, ucall,
                    uDsp, uGy, control, status, snapStale, stop_tx_count,
                    budget >>
    /\ UNCHANGED components

\* disconnect(), lines 131-132.
DisconnectFinish ==
    /\ upc = "dis_fin"
    /\ snap' = [snap EXCEPT !.connected = FALSE]
    /\ upc' = "idle"
    /\ ucall' = "idle"
    /\ UNCHANGED << links, run_evt, io_lock, counters, offsets, uDsp, uGy,
                    control, status, snapStale, stop_tx_count, budget >>
    /\ UNCHANGED components

\* start(), line 135: "if not (self.dsp and self.gy)".
HasLinks == dsp # "none" /\ gy # "none"

\* start(), lines 135-142.  Raising "Not connected" and returning because the
\* run flag is set both leave every variable as it is.  A start that goes on
\* needs a free thread slot of each kind.
StartCheck ==
    /\ upc = "idle"
    /\ IF ~HasLinks \/ run_evt
       THEN UNCHANGED << run_evt, ucall, upc, stop_tx_count, calls >>
       ELSE /\ \E t \in Tasks : cpc[t] = "off"
            /\ \E t \in Tasks : spc[t] = "off"
            /\ calls < MaxCalls
            /\ calls' = calls + 1
            /\ run_evt' = TRUE
            /\ stop_tx_count' = 0
            /\ ucall' = "start"
            /\ upc' = "st_cnt"
    /\ UNCHANGED << links, io_lock, snap, counters, offsets, uDsp, uGy,
                    control, status, snapStale, cticks, sticks >>
    /\ UNCHANGED components

\* start(), lines 145-147.
StartResetCounters ==
    /\ upc = "st_cnt"
    /\ status_ok' = 0 /\ status_to' = 0 /\ status_fail_row' = 0
    /\ upc' = "st_spawn"
    /\ UNCHANGED << links, run_evt, io_lock, snap, offsets, ucall, uDsp, uGy,
                    control, status, snapStale, stop_tx_count, budget >>
    /\ UNCHANGED components

\* start(), lines 149-152.
StartSpawn ==
    /\ upc = "st_spawn"
    /\ cpc' = [cpc EXCEPT ![FreeSlot(cpc)] = "c_loop"]
    /\ spc' = [spc EXCEPT ![FreeSlot(spc)] = "s_loop"]
    /\ upc' = "st_snap"
    /\ UNCHANGED << links, run_evt, io_lock, snap, counters, offsets, ucall,
                    uDsp, uGy, cAngle, cHeading, cStale, sAng, snapStale,
                    stop_tx_count, budget >>
    /\ UNCHANGED components

\* start(), lines 154-155.
StartSnap ==
    /\ upc = "st_snap"
    /\ snap' = [snap EXCEPT !.running = TRUE]
    /\ upc' = "idle"
    /\ ucall' = "idle"
    /\ UNCHANGED << links, run_evt, io_lock, counters, offsets, uDsp, uGy,
                    control, status, snapStale, stop_tx_count, budget >>
    /\ UNCHANGED components

(* --------------------------- control thread ---------------------------- *)

\* _control_loop, lines 237-252: the loop test, the reads of rate and angle
\* and the heading.  DSP3100 has no attribute rate_dps, so getattr gives 0.0.
ControlLoop(t) ==
    /\ cpc[t] = "c_loop"
    /\ IF run_evt
       THEN /\ cticks < MaxControlTicks
            /\ cticks' = cticks + 1
            /\ \E a \in ReadDspAngle :
                 /\ cAngle' = [cAngle EXCEPT ![t] = a]
                 /\ cHeading' =
                      [cHeading EXCEPT ![t] = Heading(a, dsp_zero_offset)]
            /\ cpc' = [cpc EXCEPT ![t] = "c_send"]
       ELSE /\ cpc' = [cpc EXCEPT ![t] = "off"]
            /\ UNCHANGED << cAngle, cHeading, cticks >>
    /\ UNCHANGED << links, run_evt, io_lock, snap, counters, offsets, caller,
                    cStale, status, snapStale, stop_tx_count, calls, sticks >>
    /\ UNCHANGED components

\* A control tick that gives up on a failed write: it clears the run flag.
ControlSendStops(t) ==
    /\ cpc[t] = "c_send"
    /\ \/ gy = "open" /\ UNCHANGED << snap, run_evt >>
       \/ snap' = [snap EXCEPT !.last_error = ErrTx] /\ run_evt' = FALSE
    /\ cpc' = [cpc EXCEPT ![t] = "c_pub"]
    /\ UNCHANGED << links, io_lock, counters, offsets, caller,
                    cAngle, cHeading, cStale, status, snapStale,
                    stop_tx_count, budget >>
    /\ UNCHANGED components

\* _control_loop, lines 254-264: the command (0.0, the rate being 0.0) and the
\* TX-only write.  The write fails when the link is not open (ser is None) and
\* may fail when it is; the handler records the error and the tick goes on.
ControlSend(t) ==
    /\ cpc[t] = "c_send"
    /\ \/ gy = "open" /\ UNCHANGED snap
       \/ snap' = [snap EXCEPT !.last_error = ErrTx]
    /\ cpc' = [cpc EXCEPT ![t] = "c_pub"]
    /\ UNCHANGED << links, run_evt, io_lock, counters, offsets, caller,
                    cAngle, cHeading, cStale, status, snapStale,
                    stop_tx_count, budget >>
    /\ UNCHANGED components

\* _control_loop, lines 266-271.
ControlPublish(t) ==
    /\ cpc[t] = "c_pub"
    /\ snap' = [snap EXCEPT !.dsp_rate_dps = 0, !.dsp_angle_deg = cAngle[t],
                            !.dsp_heading_deg = cHeading[t], !.cmd_dps = 0]
    /\ snapStale' = cStale[t]
    /\ cAngle' = [cAngle EXCEPT ![t] = 0]
    /\ cHeading' = [cHeading EXCEPT ![t] = 0]
    /\ cStale' = [cStale EXCEPT ![t] = FALSE]
    /\ cpc' = [cpc EXCEPT ![t] = "c_loop"]
    /\ UNCHANGED << links, run_evt, io_lock, counters, offsets, caller,
                    status, stop_tx_count, budget >>
    /\ UNCHANGED components

(* ---------------------------- status thread ---------------------------- *)

\* A status loop that never looks at the run flag again once it is clear.
StatusLoopNoExit(t) ==
    /\ spc[t] = "s_loop"
    /\ run_evt
    /\ sticks < MaxStatusTicks
    /\ sticks' = sticks + 1
    /\ spc' = [spc EXCEPT ![t] = "s_acq"]
    /\ UNCHANGED << links, run_evt, io_lock, snap, counters, offsets, caller,
                    control, sAng, snapStale, stop_tx_count, calls, cticks >>
    /\ UNCHANGED components

\* _status_loop, lines 279-284: the loop test.
StatusLoop(t) ==
    /\ spc[t] = "s_loop"
    /\ IF run_evt
       THEN /\ sticks < MaxStatusTicks
            /\ sticks' = sticks + 1
            /\ spc' = [spc EXCEPT ![t] = "s_acq"]
       ELSE /\ spc' = [spc EXCEPT ![t] = "off"]
            /\ UNCHANGED sticks
    /\ UNCHANGED << links, run_evt, io_lock, snap, counters, offsets, caller,
                    control, sAng, snapStale, stop_tx_count, calls, cticks >>
    /\ UNCHANGED components

\* _status_loop, lines 287-288: the I/O lock is taken and the receive buffer
\* drained; with the link dropped (self.gy is None) drain_rx raises.
StatusAcquire(t) ==
    /\ spc[t] = "s_acq"
    /\ io_lock = Free
    /\ IF gy = "none"
       THEN /\ spc' = [spc EXCEPT ![t] = "s_exc"]
            /\ UNCHANGED io_lock
       ELSE /\ spc' = [spc EXCEPT ![t] = "s_status"]
            /\ io_lock' = StatusThread(t)
    /\ UNCHANGED << links, run_evt, snap, counters, offsets, caller, control,
                    sAng, snapStale, stop_tx_count, budget >>
    /\ UNCHANGED components

\* _status_loop, line 289, read_status(): a status, a TimeoutError after the
\* retries, or another exception (checksum, short payload, not connected).
StatusRead(t) ==
    /\ spc[t] = "s_status"
    /\ \/ /\ gy = "open"
          /\ spc' = [spc EXCEPT ![t] = "s_angle"]
          /\ UNCHANGED io_lock
       \/ /\ gy = "open"
          /\ spc' = [spc EXCEPT ![t] = "s_to"]
          /\ io_lock' = Free
       \/ /\ spc' = [spc EXCEPT ![t] = "s_exc"]
          /\ io_lock' = Free
    /\ UNCHANGED << links, run_evt, snap, counters, offsets, caller, control,
                    sAng, snapStale, stop_tx_count, budget >>
    /\ UNCHANGED components

\* _status_loop, line 290, read_singleturn_angle_deg(), and the release of the
\* I/O lock.
StatusAngle(t) ==
    /\ spc[t] = "s_angle"
    /\ \/ /\ gy = "open"
          /\ \E a \in GyemsAngles : sAng' = [sAng EXCEPT ![t] = a]
          /\ spc' = [spc EXCEPT ![t] = "s_ok_cnt"]
       \/ /\ gy = "open"
          /\ spc' = [spc EXCEPT ![t] = "s_to"]
          /\ UNCHANGED sAng
       \/ /\ spc' = [spc EXCEPT ![t] = "s_exc"]
          /\ UNCHANGED sAng
    /\ io_lock' = Free
    /\ UNCHANGED << links, run_evt, snap, counters, offsets, caller, control,
                    snapStale, stop_tx_count, budget >>
    /\ UNCHANGED components

\* A successful poll that leaves the consecutive-failure counter alone.
StatusOkCountNoReset(t) ==
    /\ spc[t] = "s_ok_cnt"
    /\ status_ok' = status_ok + 1
    /\ spc' = [spc EXCEPT ![t] = "s_ok_pub"]
    /\ UNCHANGED << links, run_evt, io_lock, snap, status_to, status_fail_row,
                    offsets, caller, control, sAng, snapStale, stop_tx_count,
                    budget >>
    /\ UNCHANGED components

\* _status_loop, lines 292-293.
StatusOkCount(t) ==
    /\ spc[t] = "s_ok_cnt"
    /\ status_ok' = status_ok + 1
    /\ status_fail_row' = 0
    /\ spc' = [spc EXCEPT ![t] = "s_ok_pub"]
    /\ UNCHANGED << links, run_evt, io_lock, snap, status_to, offsets, caller,
                    control, sAng, snapStale, stop_tx_count, budget >>
    /\ UNCHANGED components

\* _status_loop, lines 295-301.
StatusOkPublish(t) ==
    /\ spc[t] = "s_ok_pub"
    /\ snap' = [snap EXCEPT
                  !.gyems_status = "status",
                  !.gyems_angle_deg = sAng[t],
                  !.gyems_heading_deg = Heading(sAng[t], gyems_zero_offset),
                  !.status_ok = status_ok,
                  !.status_timeouts = status_to,
                  !.status_fail_row = status_fail_row]
    /\ sAng' = [sAng EXCEPT ![t] = 0]
    /\ spc' = [spc EXCEPT ![t] = "s_loop"]
    /\ UNCHANGED << links, run_evt, io_lock, counters, offsets, caller,
                    control, snapStale, stop_tx_count, budget >>
    /\ UNCHANGED components

\* _status_loop, lines 304-305.
StatusTimeoutCount(t) ==
    /\ spc[t] = "s_to"
    /\ status_to' = status_to + 1
    /\ status_fail_row' = status_fail_row + 1
    /\ spc' = [spc EXCEPT ![t] = "s_to_pub"]
    /\ UNCHANGED << links, run_evt, io_lock, snap, status_ok, offsets, caller,
                    control, sAng, snapStale, stop_tx_count, budget >>
    /\ UNCHANGED components

\* A timeout handler that also drops the motor status from the snapshot.
StatusTimeoutPublishClears(t) ==
    /\ spc[t] = "s_to_pub"
    /\ snap' = [snap EXCEPT !.gyems_status = "None",
                            !.status_ok = status_ok,
                            !.status_timeouts = status_to,
                            !.status_fail_row = status_fail_row]
    /\ spc' = [spc EXCEPT ![t] = "s_wd"]
    /\ UNCHANGED << links, run_evt, io_lock, counters, offsets, caller,
                    control, sAng, snapStale, stop_tx_count, budget >>
    /\ UNCHANGED components

\* _status_loop, lines 307-310.
StatusTimeoutPublish(t) ==
    /\ spc[t] = "s_to_pub"
    /\ snap' = [snap EXCEPT !.status_ok = status_ok,
                            !.status_timeouts = status_to,
                            !.status_fail_row = status_fail_row]
    /\ spc' = [spc EXCEPT ![t] = "s_wd"]
    /\ UNCHANGED << links, run_evt, io_lock, counters, offsets, caller,
                    control, sAng, snapStale, stop_tx_count, budget >>
    /\ UNCHANGED components

\* A watchdog that needs one more timeout than the threshold.
WatchdogOffByOne == status_fail_row > status_fail_max_in_row

\* _status_loop, line 312: the watchdog test.
WatchdogTriggered == status_fail_row >= status_fail_max_in_row

\* _status_loop, lines 312-313: the watchdog test and _set_error.
StatusWatchdog(t) ==
    /\ spc[t] = "s_wd"
    /\ IF WatchdogTriggered
       THEN /\ snap' = [snap EXCEPT !.last_error = ErrWatchdog]
            /\ spc' = [spc EXCEPT ![t] = "s_stop_chk"]
       ELSE /\ spc' = [spc EXCEPT ![t] = "s_loop"]
            /\ UNCHANGED snap
    /\ UNCHANGED << links, run_evt, io_lock, counters, offsets, caller,
                    control, sAng, snapStale, stop_tx_count, budget >>
    /\ UNCHANGED components

\* _status_loop, line 314 with stop(), lines 158-159; line 315 when stop()
\* returns at once.
StatusStopCheck(t) ==
    /\ spc[t] = "s_stop_chk"
    /\ spc' = [spc EXCEPT ![t] = IF run_evt THEN "s_stop_clr" ELSE "off"]
    /\ UNCHANGED << links, run_evt, io_lock, snap, counters, offsets, caller,
                    control, sAng, snapStale, stop_tx_count, budget >>
    /\ UNCHANGED components

\* stop(), line 161, in the status thread.
StatusStopClear(t) ==
    /\ spc[t] = "s_stop_clr"
    /\ run_evt' = FALSE
    /\ spc' = [spc EXCEPT ![t] = "s_stop_tx"]
    /\ UNCHANGED << links, io_lock, snap, counters, offsets, caller, control,
                    sAng, snapStale, stop_tx_count, budget >>
    /\ UNCHANGED components

\* stop(), lines 163-167, in the status thread.
StatusStopTx(t) ==
    /\ spc[t] = "s_stop_tx"
    /\ stop_tx_count' \in StopWrite(stop_tx_count)
    /\ spc' = [spc EXCEPT ![t] = "s_stop_snap"]
    /\ UNCHANGED << links, run_evt, io_lock, snap, counters, offsets, caller,
                    control, sAng, snapStale, budget >>
    /\ UNCHANGED components

\* stop(), lines 169-170, in the status thread, and the return of line 315.
StatusStopSnap(t) ==
    /\ spc[t] = "s_stop_snap"
    /\ snap' = [snap EXCEPT !.running = FALSE]
    /\ spc' = [spc EXCEPT ![t] = "off"]
    /\ UNCHANGED << links, run_evt, io_lock, counters, offsets, caller,
                    control, sAng, snapStale, stop_tx_count, budget >>
    /\ UNCHANGED components

\* A handler of other exceptions that restarts the consecutive count.
StatusErrorResets(t) ==
    /\ spc[t] = "s_exc"
    /\ snap' = [snap EXCEPT !.last_error = ErrStatus]
    /\ status_fail_row' = 0
    /\ spc' = [spc EXCEPT ![t] = "s_loop"]
    /\ UNCHANGED << links, run_evt, io_lock, status_ok, status_to, offsets,
                    caller, control, sAng, snapStale, stop_tx_count, budget >>
    /\ UNCHANGED components

\* _status_loop, lines 317-318: any exception other than TimeoutError.
StatusError(t) ==
    /\ spc[t] = "s_exc"
    /\ snap' = [snap EXCEPT !.last_error = ErrStatus]
    /\ spc' = [spc EXCEPT ![t] = "s_loop"]
    /\ UNCHANGED << links, run_evt, io_lock, counters, offsets, caller,
                    control, sAng, snapStale, stop_tx_count, budget >>
    /\ UNCHANGED components

(* --------------------------- specification ----------------------------- *)

CallerStep ==
    \/ ConnectReset \/ ConnectDsp \/ ConnectGyems \/ ConnectFinish
    \/ ZeroReadDsp \/ ZeroAcquire \/ ZeroReadGyems \/ ZeroCommit
    \/ StopCheck \/ StopClear \/ StopTx \/ StopSnap
    \/ DisconnectGyems \/ DisconnectDsp \/ DisconnectFinish
    \/ StartCheck \/ StartResetCounters \/ StartSpawn \/ StartSnap

ControlStep(t) ==
    \/ ControlLoop(t) \/ ControlSend(t) \/ ControlPublish(t)

StatusStep(t) ==
    \/ StatusLoop(t) \/ StatusAcquire(t) \/ StatusRead(t) \/ StatusAngle(t)
    \/ StatusOkCount(t) \/ StatusOkPublish(t)
    \/ StatusTimeoutCount(t) \/ StatusTimeoutPublish(t) \/ StatusWatchdog(t)
    \/ StatusStopCheck(t) \/ StatusStopClear(t) \/ StatusStopTx(t)
    \/ StatusStopSnap(t) \/ StatusError(t)

Next ==
    \/ CallerStep
    \/ \E t \in Tasks : ControlStep(t)
    \/ \E t \in Tasks : StatusStep(t)

Spec == Init /\ [][Next]_vars

\* The state in which a first connect() that opened both ports and the
\* start() after it have returned and each thread has completed its first
\* tick: links held, offsets zeroed on the angles read, run flag set, one
\* status poll counted. The status ticks of a behaviour are counted from
\* this state on.
InitRunning ==
    /\ ComponentsIdle
    /\ dsp = "open" /\ gy = "open"
    /\ run_evt = TRUE
    /\ io_lock = Free
    /\ \E a \in DspAngles, g \in GyemsAngles :
         /\ dsp_zero_offset = a /\ gyems_zero_offset = g
         /\ snap = [ArnSnapshot EXCEPT !.connected = TRUE,
                                       !.running = TRUE,
                                       !.dsp_angle_deg = a,
                                       !.gyems_status = "status",
                                       !.gyems_angle_deg = g,
                                       !.status_ok = 1]
    /\ status_ok = 1 /\ status_to = 0 /\ status_fail_row = 0
    /\ upc = "idle" /\ ucall = "idle"
    /\ uDsp = 0 /\ uGy = 0
    /\ cpc = [[t \in Tasks |-> "off"] EXCEPT ![1] = "c_loop"]
    /\ cAngle = [t \in Tasks |-> 0]
    /\ cHeading = [t \in Tasks |-> 0]
    /\ spc = [[t \in Tasks |-> "off"] EXCEPT ![1] = "s_loop"]
    /\ sAng = [t \in Tasks |-> 0]
    /\ cStale = [t \in Tasks |-> FALSE]
    /\ snapStale = FALSE
    /\ stop_tx_count = 0
    /\ calls = 2 /\ cticks = 1 /\ sticks = 0

\* A call of the caller thread that is in progress goes on: its I/O returns.
CallerProgress == upc # "idle" /\ CallerStep

\* Every thread that can take a step is scheduled, and every I/O call
\* returns (with a result, a timeout or an error).
FairSpec ==
    /\ InitRunning /\ [][Next]_vars
    /\ WF_vars(CallerProgress)
    /\ \A t \in Tasks : WF_vars(ControlStep(t))
    /\ \A t \in Tasks : WF_vars(StatusStep(t))

(* ------------------------------- claims -------------------------------- *)

(* -------------- field-level model of the snapshot and its readers ------- *)

OthersOfReader ==
    << arnVars, paramVars, frameVars, driverVars, decoderVars,
       driftVars, lawVars, lockVars,
       rateVars,
       syncVars,
       floatVars >>

\* "with self._lock:" of a publishing block: the lock is taken.
PublishBegin(w) ==
    /\ snap_lock = "free"
    /\ nstamp < MaxPublishes
    /\ snap_lock' = w
    /\ widx' = 1
    /\ nstamp' = nstamp + 1
    /\ wstamp' = << w, nstamp + 1 >>
    /\ UNCHANGED << fields, objs, returned >>
    /\ UNCHANGED OthersOfReader

\* One assignment "self._snap.<field> = ..." of the block; the lock is
\* released after the last one.  gyems_status is bound to the GyemsStatus
\* object that read_status() has just created.
PublishWrite ==
    /\ snap_lock \in Publishers
    /\ LET f == Writes(snap_lock)[widx] IN
         IF f = "gyems_status"
         THEN /\ fields' = [fields EXCEPT ![f] = nstamp]
              /\ objs' = [objs EXCEPT ![nstamp] = wstamp]
         ELSE /\ fields' = [fields EXCEPT ![f] = wstamp]
              /\ UNCHANGED objs
    /\ IF widx = Len(Writes(snap_lock))
       THEN snap_lock' = "free" /\ widx' = 0
       ELSE snap_lock' = snap_lock /\ widx' = widx + 1
    /\ UNCHANGED << wstamp, nstamp, returned >>
    /\ UNCHANGED OthersOfReader

\* connect(), lines 91-94: self._snap is bound to a new ArnSnapshot.
ReplaceSnapshot ==
    /\ snap_lock = "free"
    /\ fields' = FreshFields
    /\ UNCHANGED << snap_lock, widx, wstamp, nstamp, objs, returned >>
    /\ UNCHANGED OthersOfReader

\* get_snapshot() without the lock.
GetSnapshotNoLock ==
    /\ returned' = << fields >>
    /\ UNCHANGED << snap_lock, widx, wstamp, nstamp, fields, objs >>
    /\ UNCHANGED OthersOfReader

\* get_snapshot(), lines 222-224: under the lock, a new ArnSnapshot built
\* from the internal one's __dict__: every field is copied by reference.
GetSnapshot ==
    /\ snap_lock = "free"
    /\ returned' = << fields >>
    /\ UNCHANGED << snap_lock, widx, wstamp, nstamp, fields, objs >>
    /\ UNCHANGED OthersOfReader

\* The reader assigns a field of the snapshot it was given (one assignment
\* per snapshot is followed).
MutateReturned ==
    /\ Len(returned) = 1
    /\ \A f \in FieldNames \ {"gyems_status"} : returned[1][f] # ReaderStamp
    /\ \E f \in FieldNames :
         returned' =
           << [returned[1] EXCEPT
                 ![f] = IF f = "gyems_status" THEN 0 ELSE ReaderStamp] >>
    /\ UNCHANGED << snap_lock, widx, wstamp, nstamp, fields, objs >>
    /\ UNCHANGED OthersOfReader

\* The reader assigns a field of the GyemsStatus object found in the
\* snapshot it was given.
MutateNested ==
    /\ Len(returned) = 1
    /\ returned[1]["gyems_status"] # 0
    /\ objs' = [objs EXCEPT ![returned[1]["gyems_status"]] = ReaderStamp]
    /\ UNCHANGED << snap_lock, widx, wstamp, nstamp, fields, returned >>
    /\ UNCHANGED OthersOfReader

ReaderNext ==
    \/ \E w \in Publishers : PublishBegin(w)
    \/ PublishWrite
    \/ ReplaceSnapshot
    \/ GetSnapshot
    \/ MutateReturned
    \/ MutateNested

ReaderSpec == Init /\ [][ReaderNext]_vars

\* A snapshot with the GyemsStatus object it refers to read through.
DeepValue(g) ==
    [f \in FieldNames |-> IF f = "gyems_status" THEN objs[g[f]] ELSE g[f]]


(* ---------------- set_params against the control law ------------------- *)

OthersOfParams ==
    << arnVars, readerVars, frameVars, driverVars, decoderVars,
       driftVars, lawVars, lockVars,
       rateVars,
       syncVars,
       floatVars >>

\* The parameter record p with the supplied fields replaced.
Supplied(p, args) ==
    [f \in DOMAIN p |->
       IF \E i \in DOMAIN args : ParamNames[i] = f
       THEN args[CHOOSE i \in DOMAIN args : ParamNames[i] = f]
       ELSE p[f]]

\* set_params(...) is called with some of the four arguments supplied; the
\* record it is to leave behind joins the history.
SetParamsCall ==
    /\ sp_pc = 0
    /\ sp_calls < MaxSetParams
    /\ sp_calls' = sp_calls + 1
    /\ \E S \in (SUBSET {1, 2, 3, 4}) \ {{}} :
         /\ sp_args' = [i \in S |-> NewValue[ParamNames[i]]]
         /\ committed' = committed \cup { Supplied(params, sp_args') }
    /\ sp_pc' = 1
    /\ UNCHANGED << params, tk_pc, tk >>
    /\ UNCHANGED OthersOfParams

\* set_params, lines 180-187: "if <field> is not None: self.params.<field> =
\* float(<field>)", one field after the other, no lock.
SetParamsField ==
    /\ sp_pc \in 1..4
    /\ params' = IF sp_pc \in DOMAIN sp_args
                 THEN [params EXCEPT ![ParamNames[sp_pc]] = sp_args[sp_pc]]
                 ELSE params
    /\ IF sp_pc = 4
       THEN sp_pc' = 0 /\ sp_args' = << >>
       ELSE sp_pc' = sp_pc + 1 /\ UNCHANGED sp_args
    /\ UNCHANGED << tk_pc, tk, committed, sp_calls >>
    /\ UNCHANGED OthersOfParams

\* _control_loop, line 255: error = self.params.gyro_sign * (-rate)
TickReadSign ==
    /\ tk_pc = "idle"
    /\ tk' = [NoReads EXCEPT !.gyro_sign = params.gyro_sign,
                             !.error = params.gyro_sign * (-DspRate)]
    /\ tk_pc' = "deadband"
    /\ UNCHANGED << params, sp_pc, sp_args, committed, sp_calls >>
    /\ UNCHANGED OthersOfParams

\* _control_loop, lines 256-257: the deadband.
TickReadDeadband ==
    /\ tk_pc = "deadband"
    /\ tk' = [tk EXCEPT !.deadband_dps = params.deadband_dps,
                        !.error = IF Abs(tk.error) < params.deadband_dps
                                  THEN 0 ELSE tk.error]
    /\ tk_pc' = "kp"
    /\ UNCHANGED << params, sp_pc, sp_args, committed, sp_calls >>
    /\ UNCHANGED OthersOfParams

\* _control_loop, line 258: the arguments of _clamp are evaluated from left
\* to right: self.params.kp * error, ...
TickReadKp ==
    /\ tk_pc = "kp"
    /\ tk' = [tk EXCEPT !.kp = params.kp]
    /\ tk_pc' = "lo"
    /\ UNCHANGED << params, sp_pc, sp_args, committed, sp_calls >>
    /\ UNCHANGED OthersOfParams

\* ... -self.params.max_dps, ...
TickReadLo ==
    /\ tk_pc = "lo"
    /\ tk' = [tk EXCEPT !.lo = -params.max_dps]
    /\ tk_pc' = "hi"
    /\ UNCHANGED << params, sp_pc, sp_args, committed, sp_calls >>
    /\ UNCHANGED OthersOfParams

\* ... +self.params.max_dps, and the call of _clamp.
TickReadHi ==
    /\ tk_pc = "hi"
    /\ tk' = [tk EXCEPT !.hi = params.max_dps,
                        !.cmd = Clamp(tk.kp * tk.error, tk.lo, params.max_dps)]
    /\ tk_pc' = "done"
    /\ UNCHANGED << params, sp_pc, sp_args, committed, sp_calls >>
    /\ UNCHANGED OthersOfParams

\* _control_loop, lines 260-271: the command is sent and published; the next
\* tick starts from scratch.
TickFinish ==
    /\ tk_pc = "done"
    /\ tk' = NoReads
    /\ tk_pc' = "idle"
    /\ UNCHANGED << params, sp_pc, sp_args, committed, sp_calls >>
    /\ UNCHANGED OthersOfParams

ParamNext ==
    \/ SetParamsCall \/ SetParamsField
    \/ TickReadSign \/ TickReadDeadband \/ TickReadKp
    \/ TickReadLo \/ TickReadHi \/ TickFinish

ParamSpec == Init /\ [][ParamNext]_vars


(* ------------------- a frame through build and parse ------------------- *)

OthersOfFrame ==
    << arnVars, readerVars, paramVars, driverVars, decoderVars,
       driftVars, lawVars, lockVars,
       rateVars,
       syncVars,
       floatVars >>

\* The arguments of one _build_frame call, everything else at rest.
FrameInit ==
    /\ ArnIdle /\ ReaderIdle /\ ParamsIdle /\ DriverIdle /\ DecoderIdle
    /\ DriftIdle /\ LawIdle /\ LocksIdle
    /\ RateIdle
    /\ SyncIdle
    /\ FloatIdle
    /\ fr_in \in [cmd : CmdSamples, mid : IdSamples, data : Payloads]
    /\ fr_wire = << >>
    /\ fr_pc = "new"
    /\ fr_hit = 0
    /\ fr_out = NoOutcome

\* _txrx, lines 181-185: the frame is built and written.
FrameBuild ==
    /\ fr_pc = "new"
    /\ fr_wire' = BuildFrame(fr_in.cmd, fr_in.mid, fr_in.data)
    /\ fr_pc' = "built"
    /\ UNCHANGED << fr_in, fr_hit, fr_out >>
    /\ UNCHANGED OthersOfFrame

\* The line replaces one payload byte by a different value.
FrameCorrupt ==
    /\ fr_pc = "built"
    /\ fr_hit = 0
    /\ \E i \in 1..Len(fr_in.data), b \in Byte :
         /\ b # fr_wire[5 + i]
         /\ fr_wire' = [fr_wire EXCEPT ![5 + i] = b]
         /\ fr_hit' = i
    /\ UNCHANGED << fr_in, fr_pc, fr_out >>
    /\ UNCHANGED OthersOfFrame

\* _txrx, line 188: _read_frame on what the line delivers.
FrameRead ==
    /\ fr_pc = "built"
    /\ fr_out' = ReadFrame(fr_wire)
    /\ fr_pc' = "read"
    /\ UNCHANGED << fr_in, fr_wire, fr_hit >>
    /\ UNCHANGED OthersOfFrame

FrameNext == FrameBuild \/ FrameCorrupt \/ FrameRead

FrameSpec == FrameInit /\ [][FrameNext]_vars


(* ----------------------- calls of the actuator driver ------------------ *)

OthersOfDriver ==
    << arnVars, readerVars, paramVars, frameVars, decoderVars,
       driftVars, lawVars, lockVars,
       rateVars,
       syncVars,
       floatVars >>

\* connect(), lines 82-98: serial.Serial either opens the port or raises and
\* leaves self.ser as it was.
DriverConnect ==
    /\ dr_pc \in { "idle", "done" }
    /\ ser = "none"
    /\ \E opened \in BOOLEAN : ser' = IF opened THEN "open" ELSE "none"
    /\ UNCHANGED << dr_pc, dr_op, dr_r, dr_attempt, dr_last_exc, dr_result,
                    dr_was_open, dr_written, dr_resps, dr_flushed >>
    /\ UNCHANGED OthersOfDriver

\* close(), lines 100-105.
DriverClose ==
    /\ dr_pc \in { "idle", "done" }
    /\ ser = "open"
    /\ ser' = "none"
    /\ UNCHANGED << dr_pc, dr_op, dr_r, dr_attempt, dr_last_exc, dr_result,
                    dr_was_open, dr_written, dr_resps, dr_flushed >>
    /\ UNCHANGED OthersOfDriver

\* A command operation is called; read_status starts with last_exc = None
\* (line 204).
DriverCall ==
    /\ dr_pc \in { "idle", "done" }
    /\ \E op \in DriverOps, r \in 0..MaxRetries :
         /\ (op # "read_status") => r = 0
         /\ dr_op' = op
         /\ dr_r' = r
         /\ dr_pc' = IF op = "set_speed_deg_s_tx_only" THEN "tx_only"
                     ELSE IF op = "read_status" THEN "rs_loop"
                     ELSE "txrx"
    /\ dr_attempt' = 0
    /\ dr_last_exc' = 0
    /\ dr_result' = NoResult
    /\ dr_was_open' = (ser = "open")
    /\ dr_written' = 0
    /\ dr_resps' = << >>
    /\ dr_flushed' = { }
    /\ UNCHANGED ser
    /\ UNCHANGED OthersOfDriver

\* A read_status loop that makes one attempt more.
ReadStatusLoopOneMore ==
    /\ dr_pc = "rs_loop"
    /\ IF dr_attempt < dr_r + 2
       THEN /\ dr_attempt' = dr_attempt + 1
            /\ dr_pc' = "txrx"
            /\ UNCHANGED dr_result
       ELSE /\ dr_result' = Result("Timeout", dr_last_exc, NoStatus)
            /\ dr_pc' = "done"
            /\ UNCHANGED dr_attempt
    /\ UNCHANGED << ser, dr_op, dr_r, dr_last_exc, dr_was_open, dr_written,
                    dr_resps, dr_flushed >>
    /\ UNCHANGED OthersOfDriver

\* read_status, lines 205 and 226: the next of retries + 1 attempts, or
\* raise last_exc when the loop is exhausted.
ReadStatusLoop ==
    /\ dr_pc = "rs_loop"
    /\ IF dr_attempt < dr_r + 1
       THEN /\ dr_attempt' = dr_attempt + 1
            /\ dr_pc' = "txrx"
            /\ UNCHANGED dr_result
       ELSE /\ dr_result' = Result("Timeout", dr_last_exc, NoStatus)
            /\ dr_pc' = "done"
            /\ UNCHANGED dr_attempt
    /\ UNCHANGED << ser, dr_op, dr_r, dr_last_exc, dr_was_open, dr_written,
                    dr_resps, dr_flushed >>
    /\ UNCHANGED OthersOfDriver

\* _txrx, lines 177-185: RuntimeError("Not connected") when the transport is
\* not open (read_status does not catch it), else the frame is written.
TxRxWrite ==
    /\ dr_pc = "txrx"
    /\ IF ser # "open"
       THEN /\ dr_result' = Result("NotConnected", 0, NoStatus)
            /\ dr_pc' = "done"
            /\ UNCHANGED dr_written
       ELSE /\ dr_written' = dr_written + 1
            /\ dr_pc' = "rx"
            /\ UNCHANGED dr_result
    /\ UNCHANGED << ser, dr_op, dr_r, dr_attempt, dr_last_exc, dr_was_open,
                    dr_resps, dr_flushed >>
    /\ UNCHANGED OthersOfDriver

\* _txrx, line 188, and the caller's handling of what _read_frame gives:
\* a timeout goes to read_status's handler or out of any other operation, a
\* checksum mismatch or a too short payload (lines 208, 255) is raised,
\* read_status returns the decoded status.
TxRxRead ==
    /\ dr_pc = "rx"
    /\ \E resp \in Responses :
         LET o == ReadFrame(resp) IN
         /\ dr_resps' = Append(dr_resps, resp)
         /\ IF o.kind = "timeout"
            THEN IF dr_op = "read_status"
                 THEN dr_pc' = "rs_except" /\ UNCHANGED dr_result
                 ELSE /\ dr_result' = Result("Timeout", 0, NoStatus)
                      /\ dr_pc' = "done"
            ELSE /\ dr_pc' = "done"
                 /\ dr_result' =
                      IF o.kind # "frame" \/ Len(o.data) < MinLen(dr_op)
                      THEN Result("Protocol", 0, NoStatus)
                      ELSE IF dr_op = "read_status"
                      THEN Result("ok", 0, DecodeStatus(o.data))
                      ELSE Result("ok", 0, NoStatus)
    /\ UNCHANGED << ser, dr_op, dr_r, dr_attempt, dr_last_exc, dr_was_open,
                    dr_written, dr_flushed >>
    /\ UNCHANGED OthersOfDriver

\* read_status, lines 216-224: the timeout is kept in last_exc and the
\* receive buffer is reset.
ReadStatusExcept ==
    /\ dr_pc = "rs_except"
    /\ dr_last_exc' = dr_attempt
    /\ dr_flushed' = IF ser = "open" THEN dr_flushed \cup { dr_attempt }
                     ELSE dr_flushed
    /\ dr_pc' = "rs_loop"
    /\ UNCHANGED << ser, dr_op, dr_r, dr_attempt, dr_result, dr_was_open,
                    dr_written, dr_resps >>
    /\ UNCHANGED OthersOfDriver

\* set_speed_deg_s_tx_only, lines 278-282: no connection check; with
\* self.ser = None, self.ser.write raises AttributeError.
TxOnlyWrite ==
    /\ dr_pc = "tx_only"
    /\ IF ser = "none"
       THEN /\ dr_result' = Result("AttributeError", 0, NoStatus)
            /\ UNCHANGED dr_written
       ELSE /\ dr_written' = dr_written + 1
            /\ dr_result' = Result("ok", 0, NoStatus)
    /\ dr_pc' = "done"
    /\ UNCHANGED << ser, dr_op, dr_r, dr_attempt, dr_last_exc, dr_was_open,
                    dr_resps, dr_flushed >>
    /\ UNCHANGED OthersOfDriver

DriverNext ==
    \/ DriverConnect
    \/ DriverClose
    \/ DriverCall
    \/ ReadStatusLoop
    \/ TxRxWrite
    \/ TxRxRead
    \/ ReadStatusExcept
    \/ TxOnlyWrite

DriverSpec == Init /\ [][DriverNext]_vars


(* --------------------------- the gyro decoder -------------------------- *)

OthersOfDecoder ==
    << arnVars, readerVars, paramVars, frameVars, driverVars, driftVars,
       lawVars, lockVars,
       rateVars,
       syncVars,
       floatVars >>

\* The read loop starts with the bytes the line will deliver; drift is 0.0
\* as set by __init__.
DspInit ==
    /\ ArnIdle /\ ReaderIdle /\ ParamsIdle /\ FrameIdle /\ DriverIdle
    /\ DriftIdle /\ LawIdle /\ LocksIdle
    /\ RateIdle
    /\ SyncIdle
    /\ FloatIdle
    /\ ds_input \in FreeStreams \cup InsertedStreams
    /\ ds_stream = ds_input
    /\ ds_pc = "read"
    /\ buffer = << >>
    /\ skipped = 0
    /\ ds_angle = 0
    /\ valid_packets = 0
    /\ skipped_bytes = 0
    /\ ds_discarded = << >>

\* Lines 62-66: one byte is read and appended to the buffer.
DspRead ==
    /\ ds_pc = "read"
    /\ ds_stream # << >>
    /\ buffer' = Append(buffer, Head(ds_stream))
    /\ ds_stream' = Tail(ds_stream)
    /\ ds_pc' = "frame"
    /\ UNCHANGED << ds_input, skipped, ds_angle, valid_packets, skipped_bytes,
                    ds_discarded >>
    /\ UNCHANGED OthersOfDecoder

\* Lines 68-105, one pass of the inner loop: the first five bytes are
\* accepted as a packet (angle, counters, five bytes removed) or the first
\* byte is discarded.
DspFrame ==
    /\ ds_pc = "frame"
    /\ Len(buffer) >= 5
    /\ LET block == SubSeq(buffer, 1, 5) IN
       IF PacketValid(block)
       THEN /\ ds_angle' = ds_angle + DecodeAngle(block)
            /\ valid_packets' = valid_packets + 1
            /\ skipped_bytes' = skipped_bytes + skipped
            /\ skipped' = 0
            /\ buffer' = SubSeq(buffer, 6, Len(buffer))
            /\ UNCHANGED ds_discarded
       ELSE /\ buffer' = Tail(buffer)
            /\ skipped' = skipped + 1
            /\ skipped_bytes' = skipped_bytes + 1
            /\ ds_discarded' = Append(ds_discarded, Head(buffer))
            /\ UNCHANGED << ds_angle, valid_packets >>
    /\ UNCHANGED << ds_input, ds_stream, ds_pc >>
    /\ UNCHANGED OthersOfDecoder

\* Line 68: fewer than five bytes buffered, back to reading.
DspLoopExit ==
    /\ ds_pc = "frame"
    /\ Len(buffer) < 5
    /\ ds_pc' = "read"
    /\ UNCHANGED << ds_input, ds_stream, buffer, skipped, ds_angle,
                    valid_packets, skipped_bytes, ds_discarded >>
    /\ UNCHANGED OthersOfDecoder

DspNext == DspRead \/ DspFrame \/ DspLoopExit

DspSpec == DspInit /\ [][DspNext]_vars


(* --------------------- the gyro's drift measurement -------------------- *)

OthersOfDrift ==
    << arnVars, readerVars, paramVars, frameVars, driverVars, lawVars,
       lockVars,
       rateVars,
       syncVars,
       floatVars >>

\* The clock advances.
Tick ==
    /\ clock < MaxTime
    /\ clock' = clock + 1
    /\ UNCHANGED << drift, drift_active, drift_sum, drift_count, drift_start,
                    drift_duration, pk_pc, angle_change, now, tmp, duration,
                    drift_correction, dd_pc, sekunden, df_corr, df_prev,
                    df_last, df_expect, df_raced, df_packets, df_windows,
                    ds_input, ds_stream, ds_pc, buffer, skipped, ds_angle,
                    valid_packets, skipped_bytes, ds_discarded >>
    /\ UNCHANGED OthersOfDrift

\* determine_drift(sekunden), line 130: the gyro lock is taken; the read loop
\* takes it only inside single steps, so it is free.
DetermineDriftCall ==
    /\ dd_pc = "idle"
    /\ df_windows < MaxWindows
    /\ \E d \in Durations : sekunden' = d
    /\ df_windows' = df_windows + 1
    /\ df_prev' = drift
    /\ dd_pc' = "sum"
    /\ UNCHANGED << clock, drift, drift_active, drift_sum, drift_count,
                    drift_start, drift_duration, pk_pc, angle_change, now,
                    tmp, duration, drift_correction, df_corr, df_last,
                    df_expect, df_packets, ds_input, ds_stream, ds_pc,
                    buffer, skipped, ds_angle, valid_packets, skipped_bytes,
                    ds_discarded >>
    /\ df_raced' = (df_raced \/ (pk_pc' \in WindowCode /\ dd_pc' # "idle"))
    /\ UNCHANGED OthersOfDrift

\* determine_drift, line 131: self._drift_sum = 0.0
DdSum ==
    /\ dd_pc = "sum"
    /\ drift_sum' = 0
    /\ dd_pc' = "count"
    /\ UNCHANGED << clock, drift, drift_active, drift_count, drift_start,
                    drift_duration, pk_pc, angle_change, now, tmp, duration,
                    drift_correction, sekunden, df_corr, df_prev, df_last,
                    df_expect, df_packets, df_windows, ds_input, ds_stream,
                    ds_pc, buffer, skipped, ds_angle, valid_packets,
                    skipped_bytes, ds_discarded >>
    /\ df_raced' = (df_raced \/ (pk_pc' \in WindowCode /\ dd_pc' # "idle"))
    /\ UNCHANGED OthersOfDrift

\* determine_drift, line 132: self._drift_count = 0
DdCount ==
    /\ dd_pc = "count"
    /\ drift_count' = 0
    /\ dd_pc' = "duration"
    /\ UNCHANGED << clock, drift, drift_active, drift_sum, drift_start,
                    drift_duration, pk_pc, angle_change, now, tmp, duration,
                    drift_correction, sekunden, df_corr, df_prev, df_last,
                    df_expect, df_packets, df_windows, ds_input, ds_stream,
                    ds_pc, buffer, skipped, ds_angle, valid_packets,
                    skipped_bytes, ds_discarded >>
    /\ df_raced' = (df_raced \/ (pk_pc' \in WindowCode /\ dd_pc' # "idle"))
    /\ UNCHANGED OthersOfDrift

\* determine_drift, line 133: self._drift_duration = sekunden
DdDuration ==
    /\ dd_pc = "duration"
    /\ drift_duration' = sekunden
    /\ dd_pc' = "start"
    /\ UNCHANGED << clock, drift, drift_active, drift_sum, drift_count,
                    drift_start, pk_pc, angle_change, now, tmp, duration,
                    drift_correction, sekunden, df_corr, df_prev, df_last,
                    df_expect, df_packets, df_windows, ds_input, ds_stream,
                    ds_pc, buffer, skipped, ds_angle, valid_packets,
                    skipped_bytes, ds_discarded >>
    /\ df_raced' = (df_raced \/ (pk_pc' \in WindowCode /\ dd_pc' # "idle"))
    /\ UNCHANGED OthersOfDrift

\* determine_drift, line 134: self._drift_start = time.time()
DdStart ==
    /\ dd_pc = "start"
    /\ drift_start' = clock
    /\ dd_pc' = "active"
    /\ UNCHANGED << clock, drift, drift_active, drift_sum, drift_count,
                    drift_duration, pk_pc, angle_change, now, tmp, duration,
                    drift_correction, sekunden, df_corr, df_prev, df_last,
                    df_expect, df_packets, df_windows, ds_input, ds_stream,
                    ds_pc, buffer, skipped, ds_angle, valid_packets,
                    skipped_bytes, ds_discarded >>
    /\ df_raced' = (df_raced \/ (pk_pc' \in WindowCode /\ dd_pc' # "idle"))
    /\ UNCHANGED OthersOfDrift

\* determine_drift, line 135: self._drift_active = True; the window is armed.
DdActive ==
    /\ dd_pc = "active"
    /\ drift_active' = TRUE
    /\ df_expect' = 0
    /\ dd_pc' = "drift"
    /\ UNCHANGED << clock, drift, drift_sum, drift_count, drift_start,
                    drift_duration, pk_pc, angle_change, now, tmp, duration,
                    drift_correction, sekunden, df_corr, df_prev, df_last,
                    df_packets, df_windows, ds_input, ds_stream, ds_pc,
                    buffer, skipped, ds_angle, valid_packets, skipped_bytes,
                    ds_discarded >>
    /\ df_raced' = (df_raced \/ (pk_pc' \in WindowCode /\ dd_pc' # "idle"))
    /\ UNCHANGED OthersOfDrift

\* determine_drift, line 136: self.drift = 0.0, and the lock is released.
DdDrift ==
    /\ dd_pc = "drift"
    /\ drift' = NoDrift
    /\ dd_pc' = "idle"
    /\ UNCHANGED << clock, drift_active, drift_sum, drift_count, drift_start,
                    drift_duration, pk_pc, angle_change, now, tmp, duration,
                    drift_correction, sekunden, df_corr, df_prev, df_last,
                    df_expect, df_packets, df_windows, ds_input, ds_stream,
                    ds_pc, buffer, skipped, ds_angle, valid_packets,
                    skipped_bytes, ds_discarded >>
    /\ df_raced' = (df_raced \/ (pk_pc' \in WindowCode /\ dd_pc' # "idle"))
    /\ UNCHANGED OthersOfDrift

\* _read_loop, lines 62-74: the five bytes of a valid packet have been read and
\* the packet is decoded.
PacketAccept ==
    /\ pk_pc = "idle"
    /\ df_packets < MaxPackets
    /\ \E p \in DriftPackets :
         /\ buffer' = p
         /\ angle_change' = DecodeAngle(p)
    /\ df_packets' = df_packets + 1
    /\ pk_pc' = "l77"
    /\ UNCHANGED << clock, drift, drift_active, drift_sum, drift_count,
                    drift_start, drift_duration, now, tmp, duration,
                    drift_correction, dd_pc, sekunden, df_corr, df_prev,
                    df_last, df_expect, df_windows, ds_input, ds_stream,
                    ds_pc, skipped, ds_angle, valid_packets, skipped_bytes,
                    ds_discarded >>
    /\ df_raced' = (df_raced \/ (pk_pc' \in WindowCode /\ dd_pc' # "idle"))
    /\ UNCHANGED OthersOfDrift

\* Line 77: if self._drift_active.
L77 ==
    /\ pk_pc = "l77"
    /\ IF drift_active
       THEN pk_pc' = "l78" /\ df_expect' = df_expect + angle_change
       ELSE pk_pc' = "l93" /\ UNCHANGED df_expect
    /\ UNCHANGED << clock, drift, drift_active, drift_sum, drift_count,
                    drift_start, drift_duration, angle_change, now, tmp,
                    duration, drift_correction, dd_pc, sekunden, df_corr,
                    df_prev, df_last, df_packets, df_windows, ds_input,
                    ds_stream, ds_pc, buffer, skipped, ds_angle,
                    valid_packets, skipped_bytes, ds_discarded >>
    /\ df_raced' = (df_raced \/ (pk_pc' \in WindowCode /\ dd_pc' # "idle"))
    /\ UNCHANGED OthersOfDrift

\* Line 78: now = time.time()
L78 ==
    /\ pk_pc = "l78"
    /\ now' = clock
    /\ pk_pc' = "l79r"
    /\ UNCHANGED << clock, drift, drift_active, drift_sum, drift_count,
                    drift_start, drift_duration, angle_change, tmp, duration,
                    drift_correction, dd_pc, sekunden, df_corr, df_prev,
                    df_last, df_expect, df_packets, df_windows, ds_input,
                    ds_stream, ds_pc, buffer, skipped, ds_angle,
                    valid_packets, skipped_bytes, ds_discarded >>
    /\ df_raced' = (df_raced \/ (pk_pc' \in WindowCode /\ dd_pc' # "idle"))
    /\ UNCHANGED OthersOfDrift

\* Line 79, self._drift_sum += angle_change: the read.
L79Read ==
    /\ pk_pc = "l79r"
    /\ tmp' = drift_sum
    /\ pk_pc' = "l79w"
    /\ UNCHANGED << clock, drift, drift_active, drift_sum, drift_count,
                    drift_start, drift_duration, angle_change, now, duration,
                    drift_correction, dd_pc, sekunden, df_corr, df_prev,
                    df_last, df_expect, df_packets, df_windows, ds_input,
                    ds_stream, ds_pc, buffer, skipped, ds_angle,
                    valid_packets, skipped_bytes, ds_discarded >>
    /\ df_raced' = (df_raced \/ (pk_pc' \in WindowCode /\ dd_pc' # "idle"))
    /\ UNCHANGED OthersOfDrift

\* Line 79: the write.
L79Write ==
    /\ pk_pc = "l79w"
    /\ drift_sum' = tmp + angle_change
    /\ pk_pc' = "l80r"
    /\ UNCHANGED << clock, drift, drift_active, drift_count, drift_start,
                    drift_duration, angle_change, now, tmp, duration,
                    drift_correction, dd_pc, sekunden, df_corr, df_prev,
                    df_last, df_expect, df_packets, df_windows, ds_input,
                    ds_stream, ds_pc, buffer, skipped, ds_angle,
                    valid_packets, skipped_bytes, ds_discarded >>
    /\ df_raced' = (df_raced \/ (pk_pc' \in WindowCode /\ dd_pc' # "idle"))
    /\ UNCHANGED OthersOfDrift

\* Line 80, self._drift_count += 1: the read.
L80Read ==
    /\ pk_pc = "l80r"
    /\ tmp' = drift_count
    /\ pk_pc' = "l80w"
    /\ UNCHANGED << clock, drift, drift_active, drift_sum, drift_count,
                    drift_start, drift_duration, angle_change, now, duration,
                    drift_correction, dd_pc, sekunden, df_corr, df_prev,
                    df_last, df_expect, df_packets, df_windows, ds_input,
                    ds_stream, ds_pc, buffer, skipped, ds_angle,
                    valid_packets, skipped_bytes, ds_discarded >>
    /\ df_raced' = (df_raced \/ (pk_pc' \in WindowCode /\ dd_pc' # "idle"))
    /\ UNCHANGED OthersOfDrift

\* Line 80: the write.
L80Write ==
    /\ pk_pc = "l80w"
    /\ drift_count' = tmp + 1
    /\ pk_pc' = "l82"
    /\ UNCHANGED << clock, drift, drift_active, drift_sum, drift_start,
                    drift_duration, angle_change, now, tmp, duration,
                    drift_correction, dd_pc, sekunden, df_corr, df_prev,
                    df_last, df_expect, df_packets, df_windows, ds_input,
                    ds_stream, ds_pc, buffer, skipped, ds_angle,
                    valid_packets, skipped_bytes, ds_discarded >>
    /\ df_raced' = (df_raced \/ (pk_pc' \in WindowCode /\ dd_pc' # "idle"))
    /\ UNCHANGED OthersOfDrift

\* Line 82, now - self._drift_start >= self._drift_duration: the left side.
L82Start ==
    /\ pk_pc = "l82"
    /\ tmp' = now - drift_start
    /\ pk_pc' = "l82b"
    /\ UNCHANGED << clock, drift, drift_active, drift_sum, drift_count,
                    drift_start, drift_duration, angle_change, now, duration,
                    drift_correction, dd_pc, sekunden, df_corr, df_prev,
                    df_last, df_expect, df_packets, df_windows, ds_input,
                    ds_stream, ds_pc, buffer, skipped, ds_angle,
                    valid_packets, skipped_bytes, ds_discarded >>
    /\ df_raced' = (df_raced \/ (pk_pc' \in WindowCode /\ dd_pc' # "idle"))
    /\ UNCHANGED OthersOfDrift

\* Line 82: the comparison with self._drift_duration.
L82Test ==
    /\ pk_pc = "l82b"
    /\ pk_pc' = IF tmp >= drift_duration THEN "l83" ELSE "l93"
    /\ UNCHANGED << clock, drift, drift_active, drift_sum, drift_count,
                    drift_start, drift_duration, angle_change, now, tmp,
                    duration, drift_correction, dd_pc, sekunden, df_corr,
                    df_prev, df_last, df_expect, df_packets, df_windows,
                    ds_input, ds_stream, ds_pc, buffer, skipped, ds_angle,
                    valid_packets, skipped_bytes, ds_discarded >>
    /\ df_raced' = (df_raced \/ (pk_pc' \in WindowCode /\ dd_pc' # "idle"))
    /\ UNCHANGED OthersOfDrift

\* Line 83: duration = now - self._drift_start
L83 ==
    /\ pk_pc = "l83"
    /\ duration' = now - drift_start
    /\ pk_pc' = "l84"
    /\ UNCHANGED << clock, drift, drift_active, drift_sum, drift_count,
                    drift_start, drift_duration, angle_change, now, tmp,
                    drift_correction, dd_pc, sekunden, df_corr, df_prev,
                    df_last, df_expect, df_packets, df_windows, ds_input,
                    ds_stream, ds_pc, buffer, skipped, ds_angle,
                    valid_packets, skipped_bytes, ds_discarded >>
    /\ df_raced' = (df_raced \/ (pk_pc' \in WindowCode /\ dd_pc' # "idle"))
    /\ UNCHANGED OthersOfDrift

\* Line 84: if duration > 0 and self._drift_count > 0, else the window is
\* reported as failed (line 89).
L84 ==
    /\ pk_pc = "l84"
    /\ pk_pc' = IF duration > 0 /\ drift_count > 0 THEN "l85" ELSE "l90"
    /\ UNCHANGED << clock, drift, drift_active, drift_sum, drift_count,
                    drift_start, drift_duration, angle_change, now, tmp,
                    duration, drift_correction, dd_pc, sekunden, df_corr,
                    df_prev, df_last, df_expect, df_packets, df_windows,
                    ds_input, ds_stream, ds_pc, buffer, skipped, ds_angle,
                    valid_packets, skipped_bytes, ds_discarded >>
    /\ df_raced' = (df_raced \/ (pk_pc' \in WindowCode /\ dd_pc' # "idle"))
    /\ UNCHANGED OthersOfDrift

\* Lines 85-86: under the gyro lock, self.drift = self._drift_sum / duration
L85 ==
    /\ pk_pc = "l85"
    /\ dd_pc = "idle"
    /\ drift' = Rat(drift_sum, duration)
    /\ pk_pc' = "l90"
    /\ UNCHANGED << clock, drift_active, drift_sum, drift_count, drift_start,
                    drift_duration, angle_change, now, tmp, duration,
                    drift_correction, dd_pc, sekunden, df_corr, df_prev,
                    df_last, df_expect, df_packets, df_windows, ds_input,
                    ds_stream, ds_pc, buffer, skipped, ds_angle,
                    valid_packets, skipped_bytes, ds_discarded >>
    /\ df_raced' = (df_raced \/ (pk_pc' \in WindowCode /\ dd_pc' # "idle"))
    /\ UNCHANGED OthersOfDrift

\* Line 90: self._drift_active = False
L90 ==
    /\ pk_pc = "l90"
    /\ drift_active' = FALSE
    /\ pk_pc' = "l93"
    /\ UNCHANGED << clock, drift, drift_sum, drift_count, drift_start,
                    drift_duration, angle_change, now, tmp, duration,
                    drift_correction, dd_pc, sekunden, df_corr, df_prev,
                    df_last, df_expect, df_packets, df_windows, ds_input,
                    ds_stream, ds_pc, buffer, skipped, ds_angle,
                    valid_packets, skipped_bytes, ds_discarded >>
    /\ df_raced' = (df_raced \/ (pk_pc' \in WindowCode /\ dd_pc' # "idle"))
    /\ UNCHANGED OthersOfDrift

\* Lines 93-94: the correction is computed from self.drift, read without the
\* lock.
L93 ==
    /\ pk_pc = "l93"
    /\ drift_correction' = drift
    /\ df_last' = [active |-> drift_active, calling |-> dd_pc # "idle",
                  used |-> drift, prev |-> df_prev]
    /\ pk_pc' = "l96"
    /\ UNCHANGED << clock, drift, drift_active, drift_sum, drift_count,
                    drift_start, drift_duration, angle_change, now, tmp,
                    duration, dd_pc, sekunden, df_corr, df_prev, df_expect,
                    df_packets, df_windows, ds_input, ds_stream, ds_pc,
                    buffer, skipped, ds_angle, valid_packets, skipped_bytes,
                    ds_discarded >>
    /\ df_raced' = (df_raced \/ (pk_pc' \in WindowCode /\ dd_pc' # "idle"))
    /\ UNCHANGED OthersOfDrift

\* Lines 96-101: under the gyro lock the angle advances by the delta minus
\* drift_correction / sampling_rate and the counters are updated; the packet
\* leaves the buffer.
L96 ==
    /\ pk_pc = "l96"
    /\ dd_pc = "idle"
    /\ ds_angle' = ds_angle + angle_change
    /\ df_corr' = Append(df_corr, drift_correction)
    /\ valid_packets' = valid_packets + 1
    /\ skipped_bytes' = skipped_bytes + skipped
    /\ skipped' = 0
    /\ buffer' = SubSeq(buffer, 6, Len(buffer))
    /\ pk_pc' = "idle"
    /\ UNCHANGED << clock, drift, drift_active, drift_sum, drift_count,
                    drift_start, drift_duration, angle_change, now, tmp,
                    duration, drift_correction, dd_pc, sekunden, df_prev,
                    df_last, df_expect, df_packets, df_windows, ds_input,
                    ds_stream, ds_pc, ds_discarded >>
    /\ df_raced' = (df_raced \/ (pk_pc' \in WindowCode /\ dd_pc' # "idle"))
    /\ UNCHANGED OthersOfDrift

DriftCaller ==
    \/ DetermineDriftCall
    \/ DdSum \/ DdCount \/ DdDuration \/ DdStart \/ DdActive \/ DdDrift

DriftLoop ==
    \/ PacketAccept
    \/ L77 \/ L78 \/ L79Read \/ L79Write \/ L80Read \/ L80Write
    \/ L82Start \/ L82Test \/ L83 \/ L84 \/ L85 \/ L90 \/ L93 \/ L96

DriftNext == Tick \/ DriftCaller \/ DriftLoop

DriftSpec == Init /\ [][DriftNext]_vars

(* ------------------------ one tick's command --------------------------- *)

OthersOfLaw ==
    << arnVars, readerVars, paramVars, frameVars, driverVars, decoderVars,
       driftVars, lockVars,
       rateVars,
       syncVars,
       floatVars >>

\* The rate and the parameters of one control tick, everything else at rest.
LawInit ==
    /\ ArnIdle /\ ReaderIdle /\ ParamsIdle /\ FrameIdle /\ DriverIdle
    /\ DecoderIdle /\ DriftIdle /\ LocksIdle
    /\ RateIdle
    /\ SyncIdle
    /\ FloatIdle
    /\ lw_in \in LawInputs
    /\ lw_pc = "new"
    /\ lw_error = 0
    /\ lw_cmd = 0
    /\ lw_sent = NotSent
    /\ lw_pub = 0

\* _control_loop, line 255: error = self.params.gyro_sign * (-rate)
LawError ==
    /\ lw_pc = "new"
    /\ lw_error' = lw_in.gyro_sign * (-lw_in.rate)
    /\ lw_pc' = "error"
    /\ UNCHANGED << lw_in, lw_cmd, lw_sent, lw_pub >>
    /\ UNCHANGED OthersOfLaw

\* Lines 256-258: the deadband, the gain and the clamp.
LawCommand ==
    /\ lw_pc = "error"
    /\ lw_error' = Deadband(lw_error, lw_in.deadband_dps)
    /\ lw_cmd' = Clamp(lw_in.kp * lw_error', -lw_in.max_dps, lw_in.max_dps)
    /\ lw_pc' = "cmd"
    /\ UNCHANGED << lw_in, lw_sent, lw_pub >>
    /\ UNCHANGED OthersOfLaw

\* Lines 260-264: the command is handed to set_speed_deg_s_tx_only, which
\* writes it or raises; an exception is recorded and the tick goes on.
LawSend ==
    /\ lw_pc = "cmd"
    /\ \E raised \in BOOLEAN :
         lw_sent' = [ raised |-> raised, cmd |-> lw_cmd,
                      written |-> ~raised ]
    /\ lw_pc' = "sent"
    /\ UNCHANGED << lw_in, lw_error, lw_cmd, lw_pub >>
    /\ UNCHANGED OthersOfLaw

\* Lines 266-271: self._snap.cmd_dps = cmd
LawPublish ==
    /\ lw_pc = "sent"
    /\ lw_pub' = lw_cmd
    /\ lw_pc' = "done"
    /\ UNCHANGED << lw_in, lw_error, lw_cmd, lw_sent >>
    /\ UNCHANGED OthersOfLaw

LawNext == LawError \/ LawCommand \/ LawSend \/ LawPublish

LawSpec == LawInit /\ [][LawNext]_vars

(* ------------------------ waiting for a frame -------------------------- *)

OthersOfSync ==
    << arnVars, readerVars, paramVars, frameVars, driverVars, decoderVars,
       driftVars, lawVars, lockVars, rateVars,
       floatVars >>

\* time.time() >= deadline
DeadlinePassed == sy_elapsed >= TimeoutTicks

\* The clock after a wait of d ticks.
Later(d) == Min2(sy_elapsed + d, TimeoutTicks)

\* _read_frame, lines 134-137: the deadline of the search for the marker.
SyncInit ==
    /\ ArnIdle /\ ReaderIdle /\ ParamsIdle /\ FrameIdle /\ DriverIdle
    /\ DecoderIdle /\ DriftIdle /\ LawIdle /\ LocksIdle /\ RateIdle
    /\ FloatIdle
    /\ sy_pc = "sync"
    /\ sy_elapsed = 0
    /\ sy_last = "none"
    /\ sy_buf = 0
    /\ sy_need = 0
    /\ sy_skipped = 0

\* Lines 139-143: ser.read(1) returns nothing after self.timeout; the
\* deadline is tested and the loop goes on or raises.
SyncReadEmpty ==
    /\ sy_pc = "sync"
    /\ sy_elapsed' = Later(TimeoutTicks)
    /\ sy_last' = "empty"
    /\ sy_pc' = IF sy_elapsed' >= TimeoutTicks THEN "timeout" ELSE "sync"
    /\ UNCHANGED << sy_buf, sy_need, sy_skipped >>
    /\ UNCHANGED OthersOfSync

\* Lines 139-140 and 144: ser.read(1) returns a byte that is not 0x3E, at
\* once or after a wait; the loop reads again.
SyncReadOther ==
    /\ sy_pc = "sync"
    /\ \E d \in 0..1 : sy_elapsed' = Later(d)
    /\ sy_last' = "other"
    /\ sy_skipped' = Min2(sy_skipped + 1, MaxSkipped)
    /\ UNCHANGED << sy_pc, sy_buf, sy_need >>
    /\ UNCHANGED OthersOfSync

\* Lines 144-148 with _read_exact, lines 120-121: the marker; the four
\* header fields are read against a new deadline.
SyncReadMarker ==
    /\ sy_pc = "sync"
    /\ sy_last' = "marker"
    /\ sy_pc' = "fields"
    /\ sy_need' = 4
    /\ sy_buf' = 0
    /\ sy_elapsed' = 0
    /\ UNCHANGED sy_skipped
    /\ UNCHANGED OthersOfSync

\* _read_exact, lines 122-127: one pass of the loop, ser.read giving some of
\* the missing bytes after a wait, or none after self.timeout.
ReadExactPass ==
    /\ sy_pc \in { "fields", "payload" }
    /\ sy_buf < sy_need /\ ~DeadlinePassed
    /\ \/ \E k \in 1..(sy_need - sy_buf), d \in 0..1 :
            /\ sy_buf' = sy_buf + k
            /\ sy_elapsed' = Later(d)
            /\ sy_last' = "bytes"
       \/ /\ sy_elapsed' = Later(TimeoutTicks)
          /\ sy_last' = "empty"
          /\ UNCHANGED sy_buf
    /\ UNCHANGED << sy_pc, sy_need, sy_skipped >>
    /\ UNCHANGED OthersOfSync

\* Lines 149-161: the fields are short (timeout), their checksum is wrong,
\* the frame has no payload, or length + 1 bytes are read against a new
\* deadline.
SyncFields ==
    /\ sy_pc = "fields"
    /\ sy_buf = sy_need \/ DeadlinePassed
    /\ IF sy_buf < 4
       THEN sy_pc' = "timeout" /\ UNCHANGED << sy_buf, sy_need, sy_elapsed >>
       ELSE \/ sy_pc' = "checksum" /\ UNCHANGED << sy_buf, sy_need, sy_elapsed >>
            \/ sy_pc' = "frame" /\ UNCHANGED << sy_buf, sy_need, sy_elapsed >>
            \/ \E length \in 1..MaxLength :
                 /\ sy_pc' = "payload"
                 /\ sy_need' = length + 1
                 /\ sy_buf' = 0
                 /\ sy_elapsed' = 0
    /\ UNCHANGED << sy_last, sy_skipped >>
    /\ UNCHANGED OthersOfSync

\* Lines 162-171: the payload is short (timeout), its checksum is wrong, or
\* the frame is returned.
SyncPayload ==
    /\ sy_pc = "payload"
    /\ sy_buf = sy_need \/ DeadlinePassed
    /\ IF sy_buf < sy_need
       THEN sy_pc' = "timeout"
       ELSE sy_pc' \in { "checksum", "frame" }
    /\ UNCHANGED << sy_elapsed, sy_last, sy_buf, sy_need, sy_skipped >>
    /\ UNCHANGED OthersOfSync

SyncNext ==
    \/ SyncReadEmpty \/ SyncReadOther \/ SyncReadMarker
    \/ ReadExactPass \/ SyncFields \/ SyncPayload

\* Every ser.read returns (pyserial's timeout is self.timeout) and the thread
\* is scheduled.
SyncFairSpec == SyncInit /\ [][SyncNext]_vars /\ WF_vars(SyncNext)

(* ------------------------- headings as floats -------------------------- *)

OthersOfFloat ==
    << arnVars, readerVars, paramVars, frameVars, driverVars, decoderVars,
       driftVars, lawVars, lockVars, rateVars, syncVars >>

RECURSIVE Spacing(_)
\* The distance between neighbouring floats of magnitude a.
Spacing(a) == IF a < 2 ^ Precision THEN 1 ELSE 2 * Spacing(a \div 2)

\* The float nearest to the natural number a, ties to the even significand.
RoundNat(a) ==
    LET s == Spacing(a)
        q == a \div s
        r == a % s
    IN  IF 2 * r < s THEN q * s
        ELSE IF 2 * r > s THEN (q + 1) * s
        ELSE IF q % 2 = 0 THEN q * s
        ELSE (q + 1) * s

\* The float a real result is rounded to.
Fl(x) == IF x < 0 THEN -RoundNat(-x) ELSE RoundNat(x)

\* x + y and x - y of floats
FAdd(x, y) == Fl(x + y)
FSub(x, y) == Fl(x - y)

\* The remainder with the sign of x (exact).
Fmod(x, w) == IF x < 0 THEN -((-x) % w) ELSE x % w

\* x % w of floats, w > 0: the remainder, with w added when it is negative.
FloatMod(x, w) ==
    LET m == Fmod(x, w)
    IN  IF m < 0 THEN FAdd(m, w) ELSE m

\* (angle - offset) % 360.0
FloatHeading(angle, offset) == FloatMod(FSub(angle, offset), FullTurn)

\* The state connect() leaves (lines 102-107) with a fresh decoder.
FloatInit ==
    /\ ArnIdle /\ ReaderIdle /\ ParamsIdle /\ FrameIdle /\ DriverIdle
    /\ DecoderIdle /\ DriftIdle /\ LawIdle /\ LocksIdle /\ RateIdle /\ SyncIdle
    /\ fl_angle = 0
    /\ fl_n = 0
    /\ fl_offsets = << 0, 0 >>
    /\ fl_headings = << 0, 0 >>

\* DSP3100._read_loop, lines 92-97, for a valid packet with drift 0.0: the
\* change is added to the angle.
FloatPacket ==
    /\ fl_n < MaxFloatPackets
    /\ \E change \in AngleChanges :
         fl_angle' = FAdd(fl_angle, FSub(change, 0))
    /\ fl_n' = fl_n + 1
    /\ UNCHANGED << fl_offsets, fl_headings >>
    /\ UNCHANGED OthersOfFloat

\* zero_orientation, lines 190-213: the two angles become the offsets and the
\* published headings 0.0.
FloatZero ==
    /\ \E gy_angle \in SingleTurnAngles :
         fl_offsets' = << fl_angle, gy_angle >>
    /\ fl_headings' = << 0, 0 >>
    /\ UNCHANGED << fl_angle, fl_n >>
    /\ UNCHANGED OthersOfFloat

\* _control_loop, lines 246-252 and 266-271: the gyro heading is computed and
\* published.
FloatControlTick ==
    /\ fl_headings' =
         << FloatHeading(fl_angle, fl_offsets[1]), fl_headings[2] >>
    /\ UNCHANGED << fl_angle, fl_n, fl_offsets >>
    /\ UNCHANGED OthersOfFloat

\* _status_loop, lines 286-298: the actuator heading is computed from the
\* angle read and published.
FloatStatusTick ==
    /\ \E gy_angle \in SingleTurnAngles :
         fl_headings' =
             << fl_headings[1], FloatHeading(gy_angle, fl_offsets[2]) >>
    /\ UNCHANGED << fl_angle, fl_n, fl_offsets >>
    /\ UNCHANGED OthersOfFloat

FloatNext == FloatPacket \/ FloatZero \/ FloatControlTick \/ FloatStatusTick

FloatSpec == FloatInit /\ [][FloatNext]_vars

(* --------------------- the gyro rate in the tick ----------------------- *)

OthersOfRate ==
    << arnVars, readerVars, paramVars, frameVars, driverVars, decoderVars,
       driftVars, lawVars, lockVars,
       syncVars,
       floatVars >>

\* A connected decoder and the parameters of the ticks to come.
RateInit ==
    /\ ArnIdle /\ ReaderIdle /\ ParamsIdle /\ FrameIdle /\ DriverIdle
    /\ DecoderIdle /\ DriftIdle /\ LawIdle /\ LocksIdle /\ SyncIdle
    /\ FloatIdle
    /\ dsp_obj = NewDsp3100
    /\ rt_in \in RateInputs
    /\ rt_delta = 0
    /\ rt_pc = "packets"
    /\ rt_rate = 0
    /\ rt_cmd = 0
    /\ rt_sent = 0
    /\ rt_snap = [ dsp_rate_dps |-> 0, dsp_angle_deg |-> 0, cmd_dps |-> 0 ]

\* DSP3100._read_loop, lines 73-74 and 92-101, for one valid packet with no
\* drift set: the angle and the packet count are the attributes it assigns.
RatePacket ==
    /\ rt_pc = "packets"
    /\ dsp_obj["valid_packets"] < MaxRatePackets
    /\ \E d \in DeltaSamples :
         /\ rt_delta' = d
         /\ dsp_obj' = [dsp_obj EXCEPT !["angle"] = @ + d,
                                       !["valid_packets"] = @ + 1]
    /\ UNCHANGED << rt_in, rt_pc, rt_rate, rt_cmd, rt_sent, rt_snap >>
    /\ UNCHANGED OthersOfRate

\* _control_loop, lines 245-258: rate = getattr(self.dsp, "rate_dps", 0.0),
\* the error, the deadband and the clamped command.
RateTick ==
    /\ rt_pc = "packets"
    /\ dsp_obj["valid_packets"] > 0
    /\ rt_rate' = GetAttr(dsp_obj, "rate_dps", 0)
    /\ rt_cmd' = Clamp(rt_in.kp * Deadband(rt_in.gyro_sign * (-rt_rate'),
                                           rt_in.deadband_dps),
                       -rt_in.max_dps, rt_in.max_dps)
    /\ rt_pc' = "send"
    /\ UNCHANGED << dsp_obj, rt_in, rt_delta, rt_sent, rt_snap >>
    /\ UNCHANGED OthersOfRate

\* Lines 260-264: the command is written.
RateSend ==
    /\ rt_pc = "send"
    /\ rt_sent' = rt_cmd
    /\ rt_pc' = "publish"
    /\ UNCHANGED << dsp_obj, rt_in, rt_delta, rt_rate, rt_cmd, rt_snap >>
    /\ UNCHANGED OthersOfRate

\* Lines 266-271.
RatePublish ==
    /\ rt_pc = "publish"
    /\ rt_snap' = [ dsp_rate_dps |-> rt_rate,
                    dsp_angle_deg |-> dsp_obj["angle"],
                    cmd_dps |-> rt_cmd ]
    /\ rt_pc' = "done"
    /\ UNCHANGED << dsp_obj, rt_in, rt_delta, rt_rate, rt_cmd, rt_sent >>
    /\ UNCHANGED OthersOfRate

RateNext == RatePacket \/ RateTick \/ RateSend \/ RatePublish

RateSpec == RateInit /\ [][RateNext]_vars

(* --------------------------- threads and locks ------------------------- *)

OthersOfLocks ==
    << arnVars, readerVars, paramVars, frameVars, driverVars, decoderVars,
       driftVars, lawVars,
       rateVars,
       syncVars,
       floatVars >>

\* The step a thread is at.
AtStep(t, op) == prog[t] # << >> /\ Head(prog[t]).op = op

\* threading.Lock.acquire blocks while the lock is held, by anyone.
Blocked(t) == AtStep(t, "acquire") /\ holder[Head(prog[t]).arg] # NoThread

HeldBy(t) == { l \in Locks : holder[l] = t }

\* A thread that has been started (the caller always runs) begins a call or
\* a pass of its loop. start() raises unless connect() has set self.dsp and
\* self.gy (lines 97-101, 135-136).
LockCall(t) ==
    /\ prog[t] = << >>
    /\ t = "user" \/ t \in launched
    /\ \E p \in ProgramsOf(t) :
          /\ p = StartSteps => "reader" \in launched
          /\ prog' = [prog EXCEPT ![t] = p]
    /\ UNCHANGED << holder, launched >>
    /\ UNCHANGED OthersOfLocks

LockAcquire(t) ==
    /\ AtStep(t, "acquire")
    /\ ~Blocked(t)
    /\ holder' = [holder EXCEPT ![Head(prog[t]).arg] = t]
    /\ prog' = [prog EXCEPT ![t] = Tail(@)]
    /\ UNCHANGED launched
    /\ UNCHANGED OthersOfLocks

LockRelease(t) ==
    /\ AtStep(t, "release")
    /\ holder' = [holder EXCEPT ![Head(prog[t]).arg] = NoThread]
    /\ prog' = [prog EXCEPT ![t] = Tail(@)]
    /\ UNCHANGED launched
    /\ UNCHANGED OthersOfLocks

LockIo(t) ==
    /\ AtStep(t, "io")
    /\ launched' = launched \cup Head(prog[t]).starts
    /\ prog' = [prog EXCEPT ![t] = Tail(@)]
    /\ UNCHANGED holder
    /\ UNCHANGED OthersOfLocks

LockLocal(t) ==
    /\ AtStep(t, "local")
    /\ launched' = launched \cup Head(prog[t]).starts
    /\ prog' = [prog EXCEPT ![t] = Tail(@)]
    /\ UNCHANGED holder
    /\ UNCHANGED OthersOfLocks

LockNext ==
    \E t \in Threads :
        \/ LockCall(t) \/ LockAcquire(t) \/ LockRelease(t)
        \/ LockIo(t) \/ LockLocal(t)

LockSpec == Init /\ [][LockNext]_vars


StopPath == {"s_stop_chk", "s_stop_clr", "s_stop_tx", "s_stop_snap"}

\* C1: the status thread leaves its watchdog test for stop() exactly when the
\* consecutive-failure counter has reached status_fail_max_in_row, recording
\* a non-empty last_error; every Timeout tick adds one to that counter; the
\* stop() it calls clears the run flag and sets snapshot.running = false, and
\* the thread then returns.  Below the threshold the thread goes back to its
\* loop and neither the run flag nor the snapshot changes.
C1_WatchdogStops ==
    [][\A t \in Tasks :
         /\ (spc[t] = "s_to" /\ spc'[t] # "s_to") =>
              /\ status_fail_row' = status_fail_row + 1
              /\ status_to' = status_to + 1
         /\ (spc[t] = "s_wd" /\ spc'[t] # "s_wd") =>
              IF status_fail_row >= status_fail_max_in_row
              THEN snap'.last_error # "" /\ spc'[t] = "s_stop_chk"
              ELSE spc'[t] = "s_loop" /\ run_evt' = run_evt /\ snap' = snap
         /\ (spc[t] \notin StopPath /\ spc'[t] \in StopPath) =>
              spc[t] = "s_wd" /\ status_fail_row >= status_fail_max_in_row
         /\ (spc[t] = "s_stop_clr" /\ spc'[t] # "s_stop_clr") => ~run_evt'
         /\ (spc[t] = "s_stop_snap" /\ spc'[t] # "s_stop_snap") =>
              ~snap'.running /\ spc'[t] = "off"
         /\ (spc[t] \in StopPath /\ spc'[t] # spc[t]) =>
              spc'[t] \in StopPath \cup {"off"}
      ]_vars

\* C1 witness: connect and start only, then status_fail_max_in_row timeouts:
\* the watchdog has stopped the controller and the status thread is gone.
C1_Witness ==
    /\ calls = 2 /\ upc = "idle"
    /\ \A t \in Tasks : spc[t] = "off"
    /\ ~run_evt /\ ~snap.running
    /\ snap.last_error = ErrWatchdog
    /\ snap.status_fail_row = status_fail_max_in_row
    /\ snap.status_timeouts = status_fail_max_in_row

\* C2: a successful status tick sets the consecutive-failure counter to 0 and
\* adds exactly one to the success counter, leaves the run flag alone and
\* publishes the counters as they are; with no other status thread alive the
\* counter is still 0 when it is published.  A status thread enters stop()
\* only from the watchdog test with the counter at the threshold.
C2_SuccessResets ==
    /\ [](\A t \in Tasks :
            (spc[t] = "s_ok_pub" /\ \A u \in Tasks \ {t} : spc[u] = "off")
               => status_fail_row = 0)
    /\ [][\A t \in Tasks :
            /\ (spc[t] = "s_ok_cnt" /\ spc'[t] # "s_ok_cnt") =>
                 /\ status_fail_row' = 0
                 /\ status_ok' = status_ok + 1
                 /\ status_to' = status_to
                 /\ run_evt' = run_evt
                 /\ spc'[t] = "s_ok_pub"
            /\ (spc[t] = "s_ok_pub" /\ spc'[t] # "s_ok_pub") =>
                 /\ snap'.status_fail_row = status_fail_row
                 /\ snap'.status_ok = status_ok
                 /\ snap'.status_timeouts = status_to
                 /\ run_evt' = run_evt
                 /\ spc'[t] = "s_loop"
            /\ (spc[t] = "s_wd" /\ spc'[t] \in StopPath) =>
                 status_fail_row >= status_fail_max_in_row
         ]_vars

\* C2 witness: status_fail_max_in_row - 1 timeouts, then a success: the
\* counter is back at 0 and the controller still runs.
C2_Witness ==
    /\ run_evt /\ snap.running
    /\ snap.status_timeouts = status_fail_max_in_row - 1
    /\ snap.status_ok = 1
    /\ snap.status_fail_row = 0 /\ status_fail_row = 0
    /\ \E t \in Tasks : spc[t] = "s_loop"

\* C3: the run flag is cleared only by stop() (called by the caller thread,
\* directly or from disconnect(), or by the watchdog in a status thread); a
\* control thread whose speed write fails records the error, keeps the run
\* flag and goes on to publish; a control thread returns only from its loop
\* test, with the run flag clear.
C3_OnlyStopClearsRunFlag ==
    [][/\ (run_evt /\ ~run_evt') =>
            \/ upc = "stop_clr" /\ upc' = "stop_tx"
                 /\ ucall \in {"stop", "disconnect"}
            \/ \E t \in Tasks : spc[t] = "s_stop_clr" /\ spc'[t] = "s_stop_tx"
       /\ \A t \in Tasks :
            /\ (cpc[t] = "c_send" /\ cpc'[t] # "c_send") =>
                 /\ cpc'[t] = "c_pub"
                 /\ run_evt' = run_evt
                 /\ gy # "open" => snap'.last_error = ErrTx
            /\ (cpc[t] # "off" /\ cpc'[t] = "off") =>
                 cpc[t] = "c_loop" /\ ~run_evt
      ]_vars

\* C3 witness: the write of the first tick failed and the same control thread
\* is in its second tick, the controller still running.
C3_Witness ==
    /\ calls = 2 /\ run_evt
    /\ cticks = 2
    /\ snap.last_error = ErrTx
    /\ \E t \in Tasks : cpc[t] = "c_send"

\* What zero_orientation() does guarantee: while connected, the published
\* actuator heading is (published raw angle - stored offset) mod 360, and so
\* is the published gyro heading unless it comes from a tick that computed it
\* before the offsets were last stored; right after zero_orientation() both
\* are 0, and an angle that could not be read enters the commit as 0.
ZeroHeadingUnlessStraddled ==
    /\ (snap.connected /\ ~snapStale) =>
          snap.dsp_heading_deg
            = (snap.dsp_angle_deg - dsp_zero_offset) % FullTurn
    /\ snap.connected =>
          snap.gyems_heading_deg
            = (snap.gyems_angle_deg - gyems_zero_offset) % FullTurn
    /\ upc = "z_commit" =>
          /\ dsp # "open" => uDsp = 0
          /\ gy # "open" => uGy = 0

\* C4: zero_orientation() stores the angles it read as the offsets and sets
\* both snapshot headings to 0, and every heading that a control tick or a
\* status tick publishes while connected and running equals (the raw angle
\* it publishes - the offset stored at that moment) mod 360.
C4_HeadingAfterZero ==
    [][/\ (upc = "z_commit" /\ upc' # "z_commit") =>
            /\ dsp_zero_offset' = uDsp /\ gyems_zero_offset' = uGy
            /\ snap'.dsp_heading_deg = 0 /\ snap'.gyems_heading_deg = 0
       /\ \A t \in Tasks :
            (snap.connected /\ snap.running
               /\ cpc[t] = "c_pub" /\ cpc'[t] # "c_pub") =>
              snap'.dsp_heading_deg
                = (snap'.dsp_angle_deg - dsp_zero_offset) % FullTurn
       /\ \A t \in Tasks :
            (snap.connected /\ snap.running
               /\ spc[t] = "s_ok_pub" /\ spc'[t] # "s_ok_pub") =>
              snap'.gyems_heading_deg
                = (snap'.gyems_angle_deg - gyems_zero_offset) % FullTurn
      ]_vars

\* C5: while connected and running, no snapshot shows a heading that differs
\* from (published raw angle - offset now stored) mod 360, i.e. one computed
\* with an offset that zero_orientation() has since replaced.
C5_NoStaleHeading ==
    (snap.connected /\ snap.running) =>
       /\ snap.dsp_heading_deg
            = (snap.dsp_angle_deg - dsp_zero_offset) % FullTurn
       /\ snap.gyems_heading_deg
            = (snap.gyems_angle_deg - gyems_zero_offset) % FullTurn

\* C6: once connect() has returned with snapshot.connected = true, both the
\* gyro link and the actuator link are open.
C6_ConnectedNeedsBothLinks ==
    (upc = "idle" /\ snap.connected) => (dsp = "open" /\ gy = "open")

\* C7: whenever no call is in progress and the snapshot is not connected
\* (initially, after disconnect(), after a failed connect()), the controller
\* holds no link object, so that start() raises "Not connected".
C7_FailedConnectLeavesNothing ==
    (upc = "idle" /\ ~snap.connected) => (dsp = "none" /\ gy = "none")

\* What start() does guarantee: it goes past its checks only when both link
\* objects are held and the run flag is clear, and then sets the run flag
\* without changing threads, counters or snapshot; it resets the three
\* counters to 0; threads are spawned only by start(), exactly one control and
\* one status thread at a time; it ends by setting snapshot.running = true.
StartOnceWhenLinksHeld ==
    [][/\ (upc = "idle" /\ upc' = "st_cnt") =>
            /\ dsp # "none" /\ gy # "none" /\ ~run_evt /\ run_evt'
            /\ UNCHANGED << cpc, spc, snap, counters >>
       /\ (upc = "st_cnt" /\ upc' # "st_cnt") =>
            status_ok' = 0 /\ status_to' = 0 /\ status_fail_row' = 0
       /\ (\E t \in Tasks : \/ cpc[t] = "off" /\ cpc'[t] # "off"
                            \/ spc[t] = "off" /\ spc'[t] # "off") =>
            /\ upc = "st_spawn" /\ upc' = "st_snap"
            /\ Cardinality({t \in Tasks : cpc[t] # cpc'[t]}) = 1
            /\ Cardinality({t \in Tasks : spc[t] # spc'[t]}) = 1
            /\ \A t \in Tasks : cpc[t] # cpc'[t] => cpc'[t] = "c_loop"
            /\ \A t \in Tasks : spc[t] # spc'[t] => spc'[t] = "s_loop"
       /\ (upc = "st_snap" /\ upc' # "st_snap") =>
            snap'.running /\ upc' = "idle"
      ]_vars

\* C8: start() goes past its checks (sets the run flag, resets the counters,
\* spawns the threads) only when the controller is connected and not running;
\* otherwise it changes nothing.
C8_StartNeedsConnected ==
    [][(upc = "idle" /\ upc' = "st_cnt") => (snap.connected /\ ~run_evt)]_vars

\* C9: between two settings of the run flag, the calls of stop() write at
\* most one zero-speed frame, also when the caller's stop() and the
\* watchdog's stop() run at the same time.
C9_OneZeroSpeedFrame == stop_tx_count <= 1

\* C10: whenever the run flag is clear, every control thread and every status
\* thread eventually returns unless the run flag is set again; and a thread
\* starts a tick only while the run flag is set, so it finishes at most the
\* tick it was in when the flag was cleared.
C10_CooperativeStop ==
    /\ ~run_evt ~>
         (run_evt \/ \A t \in Tasks : cpc[t] = "off" /\ spc[t] = "off")
    /\ [][(cticks' # cticks \/ sticks' # sticks) => run_evt]_vars

\* C10 witness: stop() has cleared the run flag and sent its frame, the
\* control thread has returned after a tick, and the status thread is
\* finishing the poll it was in.
C10_Witness ==
    /\ ~run_evt /\ ucall = "stop" /\ upc = "stop_snap"
    /\ cticks = MaxControlTicks
    /\ \A t \in Tasks : cpc[t] = "off"
    /\ \E t \in Tasks : spc[t] = "s_ok_pub"

\* What disconnect() does guarantee: when it returns, the run flag is clear,
\* both link objects are dropped and snapshot.connected is false.
DisconnectDropsLinks ==
    [][(upc = "dis_fin" /\ upc' = "idle") =>
          (~run_evt' /\ dsp' = "none" /\ gy' = "none" /\ ~snap'.connected)
      ]_vars

\* C11: when disconnect() returns, the run flag is clear, both links are
\* dropped, and the snapshot shows running = false and connected = false.
C11_DisconnectLeavesStopped ==
    [][(upc = "dis_fin" /\ upc' = "idle") =>
          /\ ~run_evt' /\ dsp' = "none" /\ gy' = "none"
          /\ ~snap'.connected /\ ~snap'.running
      ]_vars

\* What get_snapshot() does guarantee: no publish, no zero and no connect
\* changes a snapshot already handed out, its GyemsStatus object included
\* (the tasks bind a new object, they never write into the old one).
ReturnedNeverUpdated ==
    [][((\E w \in Publishers : PublishBegin(w)) \/ PublishWrite
          \/ ReplaceSnapshot) /\ Len(returned) = 1
         => DeepValue(returned[1])' = DeepValue(returned[1])]_vars

\* C12: a snapshot handed out is a deep copy: no step of the controller
\* changes it or the motor status in it, and no assignment the reader makes
\* to it or to the motor status in it changes the controller's own snapshot.
C12_DeepCopy ==
    [][/\ ((\E w \in Publishers : PublishBegin(w)) \/ PublishWrite
             \/ ReplaceSnapshot) /\ Len(returned) = 1
            => DeepValue(returned[1])' = DeepValue(returned[1])
       /\ (MutateReturned \/ MutateNested)
            => DeepValue(fields)' = DeepValue(fields)
      ]_vars

\* A snapshot without a torn publish: time, rate and command come from the
\* same control tick; gyro angle and heading from the same tick or the same
\* zero, and from the tick of the rate when from a tick; actuator angle and
\* heading from the same poll or the same zero, and from the poll that bound
\* the motor status when from a poll; the three counters from the same poll,
\* which is not older than the one that bound the motor status.
Untorn(g) ==
    /\ g["t_s"] = g["dsp_rate_dps"] /\ g["dsp_rate_dps"] = g["cmd_dps"]
    /\ g["dsp_angle_deg"] = g["dsp_heading_deg"]
    /\ g["dsp_angle_deg"][1] = "control" => g["dsp_angle_deg"] = g["t_s"]
    /\ g["gyems_angle_deg"] = g["gyems_heading_deg"]
    /\ g["gyems_angle_deg"][1] = "status_ok"
         => g["gyems_angle_deg"][2] = g["gyems_status"]
    /\ g["status_ok"] = g["status_timeouts"]
    /\ g["status_timeouts"] = g["status_fail_row"]
    /\ g["gyems_status"] # 0
         => /\ g["status_ok"][1] \in {"status_ok", "status_to"}
            /\ g["status_ok"][2] >= g["gyems_status"]

SetParamsOnlySupplied ==
    [][(sp_pc = 4 /\ sp_pc' = 0) =>
         /\ params' \in committed
         /\ \A i \in DOMAIN sp_args : params'[ParamNames[i]] = sp_args[i]
         /\ \A i \in 1..4 \ DOMAIN sp_args :
              params'[ParamNames[i]] = ArnParams[ParamNames[i]]
      ]_vars

\* C14: the parameters a control tick has computed its command from are those
\* of one parameter record that was in force before or after a whole
\* set_params call (the record the call found or the one it leaves), never
\* some fields of one and some of another.
C14_AtomicParams ==
    tk_pc = "done" =>
      \E p \in committed :
        /\ tk.gyro_sign = p.gyro_sign /\ tk.deadband_dps = p.deadband_dps
        /\ tk.kp = p.kp /\ tk.lo = -p.max_dps /\ tk.hi = p.max_dps

\* C15: a frame built from a command code, a motor id and a payload and
\* parsed untouched gives back the same command code, motor id and payload;
\* it is 5 bytes long with an empty payload and payload length + 6 otherwise.
C15_FrameRoundTrip ==
    /\ (fr_pc # "new" /\ fr_hit = 0) =>
          Len(fr_wire) = IF Len(fr_in.data) = 0 THEN 5
                         ELSE Len(fr_in.data) + 6
    /\ (fr_pc = "read" /\ fr_hit = 0) =>
          /\ fr_out.kind = "frame"
          /\ fr_out.cmd = fr_in.cmd
          /\ fr_out.mid = fr_in.mid
          /\ fr_out.data = fr_in.data

\* C15 witness: command code, motor id and a payload byte all equal to the
\* header byte, payload of the longest length, parsed back.
C15_Witness ==
    /\ fr_pc = "read" /\ fr_hit = 0
    /\ fr_in.cmd = HEADER_BYTE /\ fr_in.mid = HEADER_BYTE
    /\ Len(fr_in.data) = MaxPayload /\ fr_in.data[1] = HEADER_BYTE
    /\ fr_out.kind = "frame" /\ fr_out.data = fr_in.data

\* C16: a frame of which one payload byte was replaced by a different value
\* is never returned: _read_frame raises the payload checksum mismatch.
C16_CorruptionDetected ==
    (fr_pc = "read" /\ fr_hit # 0) => fr_out.kind = "data_checksum"

\* C16 witness: the last payload byte 0 was replaced by 128 and the parse
\* raised the payload checksum mismatch.
C16_Witness ==
    /\ fr_pc = "read" /\ fr_hit = MaxPayload
    /\ fr_in.data[fr_hit] = 0 /\ fr_wire[5 + fr_hit] = 128
    /\ fr_out.kind = "data_checksum"

\* Holds: every operation that goes through _txrx, called while the
\* transport is not open, raises "Not connected" and writes nothing.
TxRxNeedsConnection ==
    (dr_pc = "done" /\ ~dr_was_open /\ dr_op \in TxRxOps) =>
        (dr_result.kind = "NotConnected" /\ dr_written = 0)

\* Holds: no operation writes a byte while the transport is not open.
NoWriteWhenClosed == ~dr_was_open => dr_written = 0

\* C17: every command operation called while the transport is not open,
\* set_speed_deg_s_tx_only included, fails with the not-connected error and
\* writes no byte.
C17_NotConnected ==
    (dr_pc = "done" /\ ~dr_was_open) =>
        (dr_result.kind = "NotConnected" /\ dr_written = 0)

\* The kind of outcome of the i-th attempt of the current call.
AttemptKind(i) == ReadFrame(dr_resps[i]).kind

\* C18: read_status(retries = r) on an open transport makes at most r + 1
\* attempts; only an attempt that timed out is followed by another one, and
\* each of those is followed by a reset of the receive buffer; it returns
\* the decoded status of the first attempt that succeeds, raises a checksum
\* mismatch or too short payload at once, and raises the last timeout only
\* after r + 1 attempts timed out.
C18_ReadStatusRetries ==
    (dr_op = "read_status" /\ dr_was_open) =>
        LET n == Len(dr_resps) IN
        /\ n <= dr_r + 1
        /\ dr_written <= dr_r + 1
        /\ \A i \in 1..(n - 1) : AttemptKind(i) = "timeout"
        /\ dr_pc = "done" =>
             /\ n >= 1
             /\ dr_written = n
             /\ dr_flushed = { i \in 1..n : AttemptKind(i) = "timeout" }
             /\ LET o == ReadFrame(dr_resps[n]) IN
                IF o.kind = "timeout"
                THEN n = dr_r + 1 /\ dr_result = Result("Timeout", n, NoStatus)
                ELSE IF o.kind = "frame" /\ Len(o.data) >= 7
                THEN dr_result = Result("ok", 0, DecodeStatus(o.data))
                ELSE dr_result = Result("Protocol", 0, NoStatus)

\* C18 witness: retries = 2, two attempts timed out, the third one answered
\* and its status is returned decoded.
C18_Witness ==
    /\ dr_op = "read_status" /\ dr_was_open /\ dr_pc = "done"
    /\ dr_r = MaxRetries /\ Len(dr_resps) = MaxRetries + 1
    /\ dr_flushed = 1..MaxRetries
    /\ dr_result = Result("ok", 0, GyemsStatus(-56, -32768, 0, 0))

\* The line delivered one byte followed by a valid packet, and the decoder
\* has read it all.
InsertedDone ==
    /\ ds_input \in InsertedStreams
    /\ ds_stream = << >>
    /\ ds_pc = "read"

\* Holds: unless the inserted byte and the packet's first four bytes form a
\* valid packet themselves, the decoder discards exactly the inserted byte
\* and accepts the packet.
ResyncUnlessCollision ==
    (InsertedDone /\ ~PacketValid(SubSeq(ds_input, 1, 5))) =>
        /\ ds_discarded = << ds_input[1] >>
        /\ valid_packets = 1
        /\ ds_angle = DecodeAngle(SubSeq(ds_input, 2, 6))
        /\ buffer = << >>

\* C19: for every valid packet and every value of one byte inserted before
\* it, the decoder discards exactly the inserted byte and accepts the
\* packet: one valid packet, the angle advanced by that packet's delta,
\* nothing left in the buffer.
C19_ResyncRecovers ==
    InsertedDone =>
        /\ ds_discarded = << ds_input[1] >>
        /\ valid_packets = 1
        /\ ds_angle = DecodeAngle(SubSeq(ds_input, 2, 6))
        /\ buffer = << >>

BytesAccountedFor ==
    Len(ds_input) - Len(ds_stream) =
        5 * valid_packets + Len(ds_discarded) + Len(buffer)

\* Holds: skipped_bytes counts every discarded byte once until the next
\* packet is accepted, and the bytes discarded since the last accepted packet
\* a second time from then on.
SkippedCountedTwice ==
    /\ skipped_bytes >= Len(ds_discarded)
    /\ skipped_bytes <= 2 * Len(ds_discarded)
    /\ valid_packets = 0 => skipped_bytes = Len(ds_discarded)

\* C21: after any input, skipped_bytes is the number of bytes the decoder
\* discarded, so bytes received = 5 * valid_packets + skipped_bytes + bytes
\* still buffered.
C21_SkippedExact ==
    /\ skipped_bytes = Len(ds_discarded)
    /\ Len(ds_input) - Len(ds_stream) =
           5 * valid_packets + skipped_bytes + Len(buffer)

\* Holds: from the moment determine_drift has returned until its window
\* completes, every delta is corrected with drift 0.0.
WindowCorrectsWithZero ==
    (df_last.active /\ ~df_last.calling /\ ~df_raced) =>
        df_last.used = NoDrift

\* C22: while a drift window is active, every delta is corrected with the
\* drift that was in force before determine_drift was called.
C22_WindowKeepsDrift ==
    (df_last.active /\ ~df_last.calling /\ ~df_raced) =>
        df_last.used = df_last.prev

\* What C23 says of one step: the read loop deactivates a window only when
\* the time since its start has reached its duration, having set drift to
\* the sum of the deltas of the window's packets over that time (when that
\* time is not 0), and the read loop changes drift only for an active
\* window.
WindowCompletes ==
    /\ (drift_active /\ ~drift_active') =>
          /\ now - drift_start >= drift_duration
          /\ (now - drift_start > 0) =>
                drift = Rat(df_expect, now - drift_start)
    /\ (drift' # drift /\ dd_pc' = dd_pc) =>
          /\ drift_active
          /\ drift' = Rat(df_expect, now - drift_start)
    /\ (pk_pc = "l82b" /\ pk_pc' = "l93") =>
          now - drift_start < drift_duration

\* Holds: a window that no determine_drift call overlapped with a packet's
\* window code completes as C23 says.
WindowCompletesUnraced ==
    [][ ~df_raced' => WindowCompletes ]_vars

\* C23: an armed window accumulates the raw delta of every valid packet; at
\* the first valid packet processed when the elapsed time has reached the
\* duration, drift becomes the accumulated delta over the elapsed time and
\* the window is deactivated; no later packet changes drift until a new
\* window is armed.
C23_WindowCompletion ==
    [][ WindowCompletes ]_vars

\* C24: in every interleaving a determine_drift(d) call leaves a window that
\* stays active until the time since its start reaches d, and whose sum is
\* that of the deltas of its own packets (0 when the call returns before any
\* packet of the window).
C24_SafeAgainstIngestion ==
    /\ [][ (drift_active /\ ~drift_active') =>
              clock - drift_start >= drift_duration ]_vars
    /\ [](( drift_active /\ dd_pc = "idle"
            /\ pk_pc \in { "idle", "l77", "l93", "l96" } ) =>
              drift_sum = df_expect)

\* The error of the tick before the deadband, from what it read.
RawError == lw_in.gyro_sign * (-lw_in.rate)

C26_Clamping ==
    (lw_pc = "done" /\ lw_in.max_dps >= 0) =>
        LET x == lw_in.kp * lw_error IN
        /\ lw_pub = IF x > lw_in.max_dps THEN lw_in.max_dps
                    ELSE IF x < -lw_in.max_dps THEN -lw_in.max_dps
                    ELSE x
        /\ lw_sent.cmd = lw_pub
        /\ Abs(lw_pub) <= lw_in.max_dps

\* C26 witness: kp 10, error 50, max_dps 180: command 180, not 500.
C26_Witness ==
    /\ lw_pc = "done"
    /\ lw_in.kp = 10 /\ lw_error = 50000 /\ lw_in.max_dps = 180000
    /\ lw_sent.written /\ lw_sent.cmd = 180000 /\ lw_pub = 180000

\* A status thread is between its drain and the end of its angle read.
InExchange(t) == spc[t] \in { "s_status", "s_angle" }

\* C27: drain, status read and angle read of a status tick run in that order
\* under the I/O lock: the thread holds the lock from the drain to the end
\* of the angle read, zero_orientation's angle read holds it too, so neither
\* that read nor another status thread's exchange starts in between; the
\* angle read follows a successful status read only.
C27_StatusExchangeAtomic ==
    /\ [](\A t \in Tasks : InExchange(t) => io_lock = StatusThread(t))
    /\ [](upc = "z_gy" => io_lock = User)
    /\ [](\A t \in Tasks : InExchange(t) =>
             /\ upc # "z_gy"
             /\ \A u \in Tasks : InExchange(u) => u = t)
    /\ [][ \A t \in Tasks :
             /\ (spc[t] # "s_status" /\ spc'[t] = "s_status") =>
                    spc[t] = "s_acq"
             /\ (spc[t] # "s_angle" /\ spc'[t] = "s_angle") =>
                    (spc[t] = "s_status" /\ gy = "open") ]_vars

\* C27 witness: a status thread is at its angle read while zero_orientation
\* waits for the I/O lock.
C27_Witness ==
    /\ upc = "z_acq"
    /\ \E t \in Tasks : spc[t] = "s_angle" /\ io_lock = StatusThread(t)

\* A frame is written to the actuator by this step: a control tick's speed
\* command, or the zero speed of stop().
WritesFrame ==
    \/ \E t \in Tasks :
         /\ cpc[t] = "c_send" /\ cpc'[t] = "c_pub"
         /\ gy = "open" /\ snap' = snap
    \/ stop_tx_count' = stop_tx_count + 1

\* C28: every write to the actuator is serialized by the I/O lock: no speed
\* frame is written while another thread holds the lock for an acknowledged
\* exchange.
C28_WritesSerialized ==
    [][ WritesFrame => io_lock = Free ]_vars

\* Holds: a thread about to acquire a lock holds none, so no thread waits
\* while another waits for it.
NoHoldAndWait == \A t \in Threads : AtStep(t, "acquire") => HeldBy(t) = {}

\* C29: a thread holding the snapshot lock is only at local work or at the
\* release of that lock (never at actuator or gyro I/O, never at the
\* acquisition of the I/O lock or the gyro lock), no thread holds the snapshot
\* lock and the I/O lock together, and no set of threads waits in a cycle:
\* whenever a thread has steps left, some thread can take one.
C29_SnapshotLockShort ==
    /\ \A t \in Threads :
          holder["_lock"] = t =>
              \/ AtStep(t, "local")
              \/ AtStep(t, "release") /\ Head(prog[t]).arg = "_lock"
    /\ \A t \in Threads : ~({ "_lock", "_io_lock" } \subseteq HeldBy(t))
    /\ \A S \in SUBSET Threads \ { {} } :
          ~(\A t \in S : Blocked(t) /\ holder[Head(prog[t]).arg] \in S)
    /\ (\E t \in Threads : prog[t] # << >>) =>
          (\E t \in Threads : prog[t] # << >> /\ ~Blocked(t))

\* C29 witness: the control thread holds the snapshot lock while the caller
\* waits for it and the status thread is inside its exchange under the I/O
\* lock.
C29_Witness ==
    /\ holder["_lock"] = "control"
    /\ Blocked("user") /\ Head(prog["user"]).arg = "_lock"
    /\ holder["_io_lock"] = "status" /\ AtStep("status", "io")

\* A standalone zero_orientation() whose two reads succeeded commits.
ZeroSucceeds ==
    /\ upc = "z_commit" /\ ucall = "zero" /\ upc' = "idle"
    /\ uGy \in GyemsAngles

\* Holds: last_error changes only when _set_error records a message or when
\* connect() replaces the snapshot at its start, and zero_orientation() leaves
\* it as it was.
LastErrorSetOrReset ==
    [][ /\ snap'.last_error # snap.last_error =>
              \/ snap'.last_error # ErrNone
              \/ upc = "idle" /\ ucall' = "connect"
        /\ (upc = "z_commit" /\ upc' # upc) =>
              snap'.last_error = snap.last_error ]_vars

\* C30: last_error holds the most recently recorded error: it changes only
\* when an error is recorded or when a zero_orientation() or a connect()
\* clears it (a tick never clears it), and a successful zero_orientation()
\* leaves it cleared.
C30_LastErrorUntilZeroOrConnect ==
    [][ /\ snap'.last_error # snap.last_error =>
              \/ snap'.last_error # ErrNone
              \/ upc = "z_commit" /\ upc' # upc
              \/ ucall' = "connect" /\ upc' # upc
        /\ ZeroSucceeds => snap'.last_error = ErrNone ]_vars

\* Holds: whatever the packets showed, the tick's rate, its command and the
\* published rate are 0.
RateAlwaysZero ==
    rt_pc = "done" =>
        rt_snap.dsp_rate_dps = 0 /\ rt_sent = 0 /\ rt_snap.cmd_dps = 0

\* C31: the rate of a control tick is the decoder's current rate: after
\* packets showing a rate of magnitude at least the deadband (kp # 0), the
\* tick's command is nonzero and the published dsp_rate_dps is that rate.
C31_TickUsesGyroRate ==
    (rt_pc = "done" /\ Abs(rt_delta) >= rt_in.deadband_dps /\ rt_delta # 0) =>
        rt_sent # 0 /\ rt_snap.dsp_rate_dps = rt_delta

\* Thread t takes a step from position p.
Leaves(t, p) == spc[t] = p /\ spc'[t] # p

\* Thread t takes a step to position p.
Enters(t, p) == spc[t] # p /\ spc'[t] = p

\* C32: a status tick that fails with anything but a timeout records
\* last_error, leaves the three counters (and their copies in the snapshot)
\* as they were, and goes back to the loop with the run flag untouched.
C32_OtherFailureNotCounted ==
    [][ \A t \in Tasks :
          /\ Enters(t, "s_exc") => UNCHANGED << counters, snap, run_evt >>
          /\ Leaves(t, "s_exc") =>
                /\ snap'.last_error = ErrStatus
                /\ UNCHANGED << counters, run_evt >>
                /\ snap'.status_ok = snap.status_ok
                /\ snap'.status_timeouts = snap.status_timeouts
                /\ snap'.status_fail_row = snap.status_fail_row
                /\ spc'[t] = "s_loop" ]_vars

\* C32 witness: a non-timeout failure has been recorded after one timeout,
\* the consecutive count still 1 and the task back in its loop.
C32_Witness ==
    /\ snap.last_error = ErrStatus
    /\ status_fail_row = 1 /\ status_to = 1 /\ snap.status_fail_row = 1
    /\ \E t \in Tasks : spc[t] = "s_loop"

\* C33: every failure the control task or the status task catches leaves a
\* non-empty message in last_error, a status timeout below the watchdog
\* threshold included, and the task goes on.
C33_EveryFailureRecorded ==
    [][ \A t \in Tasks :
          /\ Leaves(t, "s_exc") =>
                snap'.last_error # ErrNone /\ spc'[t] = "s_loop"
          /\ Leaves(t, "s_wd") =>
                snap'.last_error # ErrNone
                /\ (~WatchdogTriggered => spc'[t] = "s_loop")
          /\ (cpc[t] = "c_send" /\ cpc'[t] # "c_send" /\ gy # "open") =>
                snap'.last_error # ErrNone /\ cpc'[t] = "c_pub" ]_vars

\* Holds: the failures other than a timeout below the threshold are recorded.
FailuresButTimeoutRecorded ==
    [][ \A t \in Tasks :
          /\ Leaves(t, "s_exc") =>
                snap'.last_error # ErrNone /\ spc'[t] = "s_loop"
          /\ (Leaves(t, "s_wd") /\ WatchdogTriggered) =>
                snap'.last_error # ErrNone
          /\ (Leaves(t, "s_wd") /\ ~WatchdogTriggered) =>
                snap'.last_error = snap.last_error /\ spc'[t] = "s_loop"
          /\ (cpc[t] = "c_send" /\ cpc'[t] # "c_send" /\ gy # "open") =>
                snap'.last_error # ErrNone /\ cpc'[t] = "c_pub" ]_vars

\* C34: a status tick counts as a success only after both reads returned; a
\* timeout of the status read or of the angle read takes the tick through the
\* timeout handler once: total timeouts and consecutive failures plus one,
\* the success counter, the motor status and the actuator angle and heading
\* of the snapshot as they were.
C34_TimeoutCountsOnce ==
    [][ \A t \in Tasks :
          /\ Enters(t, "s_ok_cnt") => spc[t] = "s_angle" /\ gy = "open"
          /\ Enters(t, "s_to") =>
                /\ spc[t] \in { "s_status", "s_angle" }
                /\ UNCHANGED << counters, snap >>
          /\ Leaves(t, "s_to") =>
                /\ status_to' = status_to + 1
                /\ status_fail_row' = status_fail_row + 1
                /\ status_ok' = status_ok
                /\ snap' = snap
                /\ spc'[t] = "s_to_pub"
          /\ Leaves(t, "s_to_pub") =>
                /\ UNCHANGED counters
                /\ snap'.gyems_status = snap.gyems_status
                /\ snap'.gyems_angle_deg = snap.gyems_angle_deg
                /\ snap'.gyems_heading_deg = snap.gyems_heading_deg
                /\ snap'.status_timeouts = status_to
                /\ snap'.status_fail_row = status_fail_row
                /\ snap'.status_ok = status_ok
                /\ spc'[t] = "s_wd"
          /\ Leaves(t, "s_wd") => UNCHANGED counters ]_vars

\* C34 witness: after a successful tick published a motor status, a later
\* tick has timed out and published its counters; the status is still there.
C34_Witness ==
    /\ snap.gyems_status = "status" /\ snap.status_ok = 1
    /\ snap.status_timeouts = 1 /\ snap.status_fail_row = 1
    /\ \E t \in Tasks : spc[t] = "s_wd"

\* Holds: _read_frame returns or raises unless bytes other than the marker
\* keep arriving, and _read_exact never runs past its deadline.
SyncEndsUnlessFlooded ==
    /\ <>(sy_pc \in SyncDone) \/ []<>(sy_pc = "sync" /\ sy_last = "other")
    /\ [](sy_pc \in { "fields", "payload" } =>
            (ENABLED ReadExactPass => ~DeadlinePassed))

\* C35: reading a response always ends: whatever the line delivers, bytes
\* other than the marker without end included, _read_frame returns a frame or
\* raises, and while it searches for the marker it is never past its
\* deadline by more than one read.
C35_ReadFrameTerminates ==
    /\ <>(sy_pc \in SyncDone)
    /\ [][(sy_pc = "sync" /\ DeadlinePassed) => sy_pc' # "sync"]_vars

\* Holds: the actuator heading is in [0, 360) and the gyro heading in
\* [0, 360], 360.0 itself included.
HeadingsWithinClosedTurn ==
    /\ 0 <= fl_headings[2] /\ fl_headings[2] < FullTurn
    /\ 0 <= fl_headings[1] /\ fl_headings[1] <= FullTurn

\* C36: after any packets, zero_orientation calls, control ticks and status
\* ticks, both published headings are at least 0 and less than 360.
C36_HeadingsInRange ==
    \A i \in 1..2 : 0 <= fl_headings[i] /\ fl_headings[i] < FullTurn

\* A control thread that is inside a tick or about to begin one.
ControlExecuting(t) ==
    cpc[t] \in { "c_send", "c_pub" } \/ (cpc[t] = "c_loop" /\ run_evt)

\* A status thread that is inside a tick or about to begin one (a thread in
\* the watchdog's stop() returns whatever the run flag is).
StatusExecuting(t) ==
    /\ spc[t] \notin { "off" } \cup StopPath
    /\ spc[t] = "s_loop" => run_evt

\* C37: at any time at most one control thread and at most one status thread
\* are executing ticks, also when start() follows a stop() that the threads
\* of the run before have not yet observed.
C37_OneTaskOfEachKind ==
    /\ Cardinality({ t \in Tasks : ControlExecuting(t) }) <= 1
    /\ Cardinality({ t \in Tasks : StatusExecuting(t) }) <= 1

\* The TX-only write of a control tick succeeds (lines 260-262).
ControlWrites(t) ==
    /\ cpc[t] = "c_send" /\ cpc'[t] = "c_pub"
    /\ gy = "open" /\ snap' = snap

\* C38: once stop() has cleared the run flag and written its zero-speed
\* frame, no control tick writes a speed frame unless start() sets the flag
\* again: the zero-speed frame of stop() is the last frame on the line.
C38_StopFrameIsLast ==
    [][\A t \in Tasks :
          ControlWrites(t) => ~(~run_evt /\ stop_tx_count >= 1)]_vars

\* No call of start, stop, connect or disconnect is in progress, in the
\* caller's thread or (the watchdog's stop) in a status thread.
NoCallInProgress == upc = "idle" /\ \A t \in Tasks : spc[t] \notin StopPath

\* C39: whenever no start, stop, connect or disconnect call is in progress,
\* snapshot.running is true exactly when the run flag is set.
C39_RunningMatchesFlag == NoCallInProgress => (snap.running <=> run_evt)

\* The frame the last _read_frame of the call returned.
LastFrame == ReadFrame(dr_resps[Len(dr_resps)])

\* C40: read_status and read_singleturn_angle_deg return a value only from a
\* frame that carries their own command code, also when the reply to an
\* earlier TX-only speed command is what the line delivers.
C40_AnswersOwnRequest ==
    ( /\ dr_pc = "done"
      /\ dr_op \in { "read_status", "read_singleturn_angle_deg" }
      /\ dr_result.kind = "ok" )
    => LastFrame.cmd = CommandCode(dr_op)

====
